---- MODULE Spec2Model ----
(***************************************************************************)
(* ezssh-mcp: multi-host SSH dispatch core.                                *)
(*                                                                         *)
(* Strings are sequences of one-character strings, so that the string      *)
(* operations of the source (includes, replace, path.normalize, ...) are   *)
(* computed character by character.  An optional field (x?: T) is a set    *)
(* that is empty when the field is undefined and {v} when it holds v.      *)
(***************************************************************************)
EXTENDS Integers, Sequences, FiniteSets, TLC

(***************************************************************************)
(* Strings and node:path (posix)                                           *)
(***************************************************************************)

Lower == {"a", "b", "c", "d", "e", "f", "g", "h", "i", "j", "k", "l", "m",
          "n", "o", "p", "q", "r", "s", "t", "u", "v", "w", "x", "y", "z"}

Upper == {"A", "B", "C", "D", "E", "F", "G", "H", "I", "J", "K", "L", "M",
          "N", "O", "P", "Q", "R", "S", "T", "U", "V", "W", "X", "Y", "Z"}

Digits == {"0", "1", "2", "3", "4", "5", "6", "7", "8", "9"}

\* the character class [a-zA-Z0-9._-] of SAFE_HOST_PATTERN
SafeChars == Lower \cup Upper \cup Digits \cup {".", "_", "-"}

\* /^[a-zA-Z0-9._-]+$/.test(host)
SAFE_HOST_PATTERN(host) ==
    /\ Len(host) >= 1
    /\ \A k \in 1..Len(host) : host[k] \in SafeChars

\* a mutant of sanitizeHostName: the unsafe characters are dropped
sanitizeHostName_DropUnsafe(host) == SelectSeq(host, LAMBDA c : c \in SafeChars)

\* a mutant of sanitizeHostName: the host is used as given
sanitizeHostName_Raw(host) == host

sanitizeHostName(host) ==
    IF SAFE_HOST_PATTERN(host)
    THEN host
    ELSE [k \in 1..Len(host) |-> IF host[k] \in SafeChars THEN host[k] ELSE "_"]

\* String.prototype.includes
Includes(s, sub) ==
    \E k \in 1..(Len(s) - Len(sub) + 1) : SubSeq(s, k, k + Len(sub) - 1) = sub

StartsWithAt(s, k, pat) ==
    /\ k + Len(pat) - 1 <= Len(s)
    /\ SubSeq(s, k, k + Len(pat) - 1) = pat

\* s.replace(/pat/g, rep) for a literal pattern and a replacement without "$"
RECURSIVE ReplaceFrom(_, _, _, _)
ReplaceFrom(s, k, pat, rep) ==
    IF k > Len(s) THEN << >>
    ELSE IF StartsWithAt(s, k, pat)
         THEN rep \o ReplaceFrom(s, k + Len(pat), pat, rep)
         ELSE << s[k] >> \o ReplaceFrom(s, k + 1, pat, rep)

ReplaceAll(s, pat, rep) == ReplaceFrom(s, 1, pat, rep)

\* the segments of s between "/" characters (s.split("/"))
RECURSIVE SplitFrom(_, _, _)
SplitFrom(s, k, cur) ==
    IF k > Len(s) THEN << cur >>
    ELSE IF s[k] = "/"
         THEN << cur >> \o SplitFrom(s, k + 1, << >>)
         ELSE SplitFrom(s, k + 1, Append(cur, s[k]))

SplitSlash(s) == SplitFrom(s, 1, << >>)

RECURSIVE JoinSlash(_)
JoinSlash(segs) ==
    IF Len(segs) = 0 THEN << >>
    ELSE IF Len(segs) = 1 THEN segs[1]
         ELSE segs[1] \o << "/" >> \o JoinSlash(Tail(segs))

DotDot == << ".", "." >>

\* normalizeString of node:path: drops empty and "." segments, resolves ".."
RECURSIVE NormalizeSegs(_, _, _)
NormalizeSegs(segs, acc, allowAboveRoot) ==
    IF Len(segs) = 0 THEN acc
    ELSE LET seg == Head(segs)
             rest == Tail(segs)
         IN  IF seg = << >> \/ seg = << "." >>
             THEN NormalizeSegs(rest, acc, allowAboveRoot)
             ELSE IF seg = DotDot
                  THEN IF Len(acc) > 0 /\ acc[Len(acc)] # DotDot
                       THEN NormalizeSegs(rest, SubSeq(acc, 1, Len(acc) - 1), allowAboveRoot)
                       ELSE IF allowAboveRoot
                            THEN NormalizeSegs(rest, Append(acc, DotDot), allowAboveRoot)
                            ELSE NormalizeSegs(rest, acc, allowAboveRoot)
                  ELSE NormalizeSegs(rest, Append(acc, seg), allowAboveRoot)

\* path.normalize (posix)
normalize(p) ==
    IF Len(p) = 0 THEN << "." >>
    ELSE LET isAbsolute == p[1] = "/"
             trailingSeparator == p[Len(p)] = "/"
             body == JoinSlash(NormalizeSegs(SplitSlash(p), << >>, ~isAbsolute))
         IN  IF Len(body) = 0
             THEN IF isAbsolute THEN << "/" >>
                  ELSE IF trailingSeparator THEN << ".", "/" >> ELSE << "." >>
             ELSE (IF isAbsolute THEN << "/" >> ELSE << >>)
                  \o body
                  \o (IF trailingSeparator THEN << "/" >> ELSE << >>)

\* the length of p without its trailing "/" characters
RECURSIVE StripEnd(_, _)
StripEnd(p, e) == IF e >= 1 /\ p[e] = "/" THEN StripEnd(p, e - 1) ELSE e

\* the index of the last "/" of p at or before e, 0 when there is none
RECURSIVE LastSlash(_, _)
LastSlash(p, e) == IF e = 0 \/ p[e] = "/" THEN e ELSE LastSlash(p, e - 1)

\* the last portion of p (path.basename without a suffix)
LastPortion(p) ==
    LET e == StripEnd(p, Len(p))
    IN  SubSeq(p, LastSlash(p, e) + 1, e)

\* the index of the last "/" of p in 2..e, 0 when there is none (dirname never
\* inspects the first character)
RECURSIVE LastInnerSlash(_, _)
LastInnerSlash(p, e) ==
    IF e <= 1 THEN 0 ELSE IF p[e] = "/" THEN e ELSE LastInnerSlash(p, e - 1)

\* the index of the last character of p in 2..e that is not "/", 0 when none
RECURSIVE LastInnerNonSlash(_, _)
LastInnerNonSlash(p, e) ==
    IF e <= 1 THEN 0 ELSE IF p[e] # "/" THEN e ELSE LastInnerNonSlash(p, e - 1)

\* path.dirname (posix)
dirname(p) ==
    IF Len(p) = 0 THEN << "." >>
    ELSE LET hasRoot == p[1] = "/"
             lastNon == LastInnerNonSlash(p, Len(p))
             end == IF lastNon = 0 THEN 0 ELSE LastInnerSlash(p, lastNon - 1)
         IN  IF end = 0 THEN (IF hasRoot THEN << "/" >> ELSE << "." >>)
             ELSE IF hasRoot /\ end = 2 THEN << "/", "/" >>
             ELSE SubSeq(p, 1, end - 1)

\* the index of the last "." of s, 0 when there is none
RECURSIVE LastDot(_, _)
LastDot(s, e) == IF e = 0 \/ s[e] = "." THEN e ELSE LastDot(s, e - 1)

\* path.extname (posix)
extname(p) ==
    LET b == LastPortion(p)
        d == LastDot(b, Len(b))
    IN  IF d = 0 \/ d = 1 \/ b = DotDot THEN << >> ELSE SubSeq(b, d, Len(b))

\* path.basename(p, ext)
basename(p, ext) ==
    LET b == LastPortion(p)
    IN  IF /\ Len(ext) > 0
           /\ Len(ext) < Len(b)
           /\ SubSeq(b, Len(b) - Len(ext) + 1, Len(b)) = ext
        THEN SubSeq(b, 1, Len(b) - Len(ext))
        ELSE b

\* path.join(a, b) (posix)
join(a, b) ==
    LET joined == IF Len(a) = 0 THEN b
                  ELSE IF Len(b) = 0 THEN a
                  ELSE a \o << "/" >> \o b
    IN  IF Len(joined) = 0 THEN << "." >> ELSE normalize(joined)

(***************************************************************************)
(* Download path derivation (tools/transfer.ts)                            *)
(***************************************************************************)

\* the literal "{host}"
HostPlaceholder == << "{", "h", "o", "s", "t", "}" >>

\* resolveLocalPath throws "Invalid path after host substitution"
resolveLocalPathThrows(localPath, host) ==
    /\ Includes(localPath, HostPlaceholder)
    /\ Includes(normalize(ReplaceAll(localPath, HostPlaceholder, sanitizeHostName(host))),
                DotDot)

\* the value resolveLocalPath returns when it does not throw
resolveLocalPath(localPath, host) ==
    IF Includes(localPath, HostPlaceholder)
    THEN ReplaceAll(localPath, HostPlaceholder, sanitizeHostName(host))
    ELSE localPath

addHostSuffix(localPath, host) ==
    LET sanitizedHost == sanitizeHostName(host)
        dir == dirname(localPath)
        ext == extname(localPath)
        base == basename(localPath, ext)
    IN  join(dir, base \o << "_" >> \o sanitizedHost \o ext)

\* the download worker of transfer(): does deriving the local path throw?
DownloadPathThrows(hostList, localPath, host) ==
    /\ Includes(localPath, HostPlaceholder)
    /\ resolveLocalPathThrows(localPath, host)

\* the download worker of transfer(): resolvedLocalPath
DownloadLocalPath(hostList, localPath, host) ==
    LET isMultiHost == Len(hostList) > 1
        hasPlaceholder == Includes(localPath, HostPlaceholder)
    IN  IF hasPlaceholder THEN resolveLocalPath(localPath, host)
        ELSE IF isMultiHost THEN addHostSuffix(localPath, host)
        ELSE localPath

(***************************************************************************)
(* Inputs of the batch operations                                          *)
(***************************************************************************)

\* the longest host list of a call
MaxHosts == 3

\* the largest configured maxConcurrency (the smallest is 0)
MaxLimit == 3

\* host identifiers: "w" and ".."
HostW == << "w" >>
HostUp == << ".", "." >>

\* local paths: "o.t" and "{host}/o"
PathPlain == << "o", ".", "t" >>
PathPlaceholder == HostPlaceholder \o << "/", "o" >>
LocalPaths == {PathPlain, PathPlaceholder}

\* "task" is a call of runWithConcurrency with a worker that is not one of the three
\* workers of the repository: it settles with a value of its item, or rejects
Ops == {"task", "execute", "upload", "download"}

ExitCodes == {0, 1}

\* what the close event of an exec stream carries: the exit status, or nothing
\* when the command was ended by a signal or the channel closed without a status
CloseCodes == {{c} : c \in ExitCodes} \cup {{}}

\* the host lists of at most MaxHosts identifiers: w, w, w, ... and w, .., w, ...
HostLists ==
    {[k \in 1..n |-> HostW] : n \in 0..MaxHosts}
    \cup {[k \in 1..n |-> IF k % 2 = 1 THEN HostW ELSE HostUp] : n \in 0..MaxHosts}

VARIABLES
    op,             \* the operation called
    hosts,          \* its host list (the items of runWithConcurrency)
    localPath,      \* the localPath argument of transfer()
    maxConcurrency, \* getConfig().maxConcurrency
    mkdirWorks,     \* can mkdirSync create a missing directory?
    localDirs,      \* the local directories that exist
    pc,             \* where the runWithConcurrency call is
    i,              \* the index of the next item the for loop starts
    executing,      \* the Set executing (indices of the items whose promise is in it)
    awaited,        \* the promises handed to the pending Promise.race / Promise.all
    raceWinner,     \* the first awaited promise that settled, 0 when none has
    results,        \* the results array: results[j] is {} (a hole) or {r}
    w,              \* per item: the state of its worker invocation
    sess            \* per item: the state of its ssh2 Client

runVars == << op, hosts, localPath, maxConcurrency, mkdirWorks, localDirs, pc, i,
              executing, awaited, raceWinner, results, w, sess >>

VARIABLES
    planHosts,      \* path derivation alone: the host list of a download
    planLocalPath,  \* its localPath argument
    planned         \* the local paths derived so far, one entry per host, in order

planVars == << planHosts, planLocalPath, planned >>

VARIABLES
    strictHostKeyChecking, \* getConfig().strictHostKeyChecking
    knownHostsFile,        \* the file at getConfig().sshKnownHostsPath
    hostRec,               \* the SSHHost handed to createConnectConfig
    timeoutArg,            \* the timeout argument, {} when undefined
    agentSocket,           \* what getSSHAgentSocket() returns, {} when undefined
    identityFs,            \* the file at host.identityFile: missing, file or unreadable
    connectConfig,         \* the ConnectConfig built, {} before
    knownHostsReads,       \* how often the known_hosts file has been parsed
    presentedKey,          \* the host key the server presented, {} before
    verdict,               \* what the hostVerifier returned, {} before
    cpc,                   \* where the connection attempt is
    envSshTimeout          \* process.env.SSH_TIMEOUT, {} when undefined

connVars == << strictHostKeyChecking, knownHostsFile, hostRec, timeoutArg, agentSocket,
               identityFs, connectConfig, knownHostsReads, presentedKey, verdict, cpc,
               envSshTimeout >>

VARIABLES
    aliasFile,        \* the file at getConfig().sshConfigPath
    cachedHosts,      \* _cachedHosts, {} when null
    cachedConfigPath, \* _cachedConfigPath, {} when null
    cachedMtime,      \* _cachedMtime, {} when null
    envUser,          \* process.env.USER and process.env.USERNAME
    identifier,       \* the host identifier handed to connect()
    directOptions,    \* the directOptions of the call, {} when undefined
    resolved,         \* what resolveHost returned, {} before
    effective,        \* what applyDirectOptions returned, {} before
    rpc,              \* where the resolution is
    calls,            \* the resolutions completed
    mods              \* the modifications of the alias file

resVars == << aliasFile, cachedHosts, cachedConfigPath, cachedMtime, envUser, identifier,
              directOptions, resolved, effective, rpc, calls, mods >>

VARIABLES
    connPhase,        \* connect(): "start", "listening" once client.connect(config) was
                      \* called, "threw" when the executor threw
    emitted,          \* the events the ssh2 client has emitted, in order
    settled,          \* let settled = false
    promise,          \* the promise connect() returned
    endCalls          \* the calls of client.end() made by connect's handlers

evVars == << connPhase, emitted, settled, promise, endCalls >>

VARIABLES
    errMessage,       \* err.message of the failure
    suppliedPassword, \* directOptions.password of the call
    errorText         \* the error field of the result, {} before the failure

sanVars == << errMessage, suppliedPassword, errorText >>

VARIABLES
    sshConfigPath,    \* getConfig().sshConfigPath
    pendingHosts,     \* the hosts parsed by a call that has not yet read the mtime
    cachePhase,       \* "idle", or "parsed" between readFileSync and statSync
    lastOutcome,      \* how the last parseSSHConfig call went
    lastList          \* what the last parseSSHConfig call returned, {} before

cacheVars == << sshConfigPath, pendingHosts, cachePhase, lastOutcome, lastList >>

VARIABLES
    environ,          \* process.env: the SSH_* variables that loadConfig reads
    globalConfig,     \* _config, {} when null
    returnedConfig,   \* what the last getConfig() returned, {} before
    gets              \* the getConfig() calls made

cfgVars == << environ, globalConfig, returnedConfig, gets >>

VARIABLES
    envAuthSock,      \* process.env.SSH_AUTH_SOCK
    envOpAuthSock,    \* process.env.OP_SSH_AUTH_SOCK
    osPlatform,       \* platform()
    existingPaths     \* the socket paths for which existsSync is true

agentVars == << envAuthSock, envOpAuthSock, osPlatform, existingPaths >>

VARIABLES
    stdoutBuf,        \* let stdout = ""
    stderrBuf,        \* let stderr = ""
    chunks,           \* the data events of the stream so far, in order
    execResult,       \* what the promise of executeCommand resolved with, {} before
    clientEnded       \* the calls of client.end()

streamVars == << stdoutBuf, stderrBuf, chunks, execResult, clientEnded >>

\* the variables of the specifications that follow the first six
moreVars == << cacheVars, cfgVars, agentVars, streamVars >>

\* the variables of the first six specifications
coreVars == << runVars, planVars, connVars, evVars, sanVars >>

\* the run variables while only paths are derived
IdleRun ==
    /\ op = "download"
    /\ hosts = << >>
    /\ localPath = PathPlain
    /\ maxConcurrency = 1
    /\ mkdirWorks = TRUE
    /\ localDirs = {}
    /\ pc = "idle"
    /\ i = 1
    /\ executing = {}
    /\ awaited = {}
    /\ raceWinner = 0
    /\ results = << >>
    /\ w = << >>
    /\ sess = << >>

\* the plan variables while a batch runs
IdlePlan ==
    /\ planHosts = << >>
    /\ planLocalPath = PathPlain
    /\ planned = << >>

\* the connection variables while no connection attempt is modelled
IdleConn ==
    /\ strictHostKeyChecking = FALSE
    /\ knownHostsFile = [state |-> "missing", lines |-> << >>]
    /\ hostRec = [hostname |-> << "h" >>, port |-> 22, user |-> << "u" >>,
                  password |-> {}, identityFile |-> {}]
    /\ timeoutArg = {}
    /\ agentSocket = {}
    /\ identityFs = "missing"
    /\ connectConfig = {}
    /\ knownHostsReads = 0
    /\ presentedKey = {}
    /\ verdict = {}
    /\ cpc = "start"
    /\ envSshTimeout = {}

\* the variables of connect()'s events while no connect() is modelled
IdleEv ==
    /\ connPhase = "start"
    /\ emitted = << >>
    /\ settled = FALSE
    /\ promise = [state |-> "pending", value |-> {}]
    /\ endCalls = 0

\* the variables of the error text while no failure is modelled
IdleSan ==
    /\ errMessage = << >>
    /\ suppliedPassword = << >>
    /\ errorText = {}

\* the variables of the parse cache while parseSSHConfig is taken in one step
IdleCache ==
    /\ sshConfigPath = "config"
    /\ pendingHosts = {}
    /\ cachePhase = "idle"
    /\ lastOutcome = "none"
    /\ lastList = {}

\* the configuration variables while getConfig() is not modelled
IdleCfg ==
    /\ environ = [SSH_CONFIG_PATH |-> {}, SSH_KNOWN_HOSTS_PATH |-> {}, SSH_TIMEOUT |-> {},
                  SSH_STRICT_HOST_KEY |-> {}, SSH_MAX_CONCURRENCY |-> {}]
    /\ globalConfig = {}
    /\ returnedConfig = {}
    /\ gets = 0

\* the agent variables while the agent socket is given
IdleAgent ==
    /\ envAuthSock = {}
    /\ envOpAuthSock = {}
    /\ osPlatform = "linux"
    /\ existingPaths = {}

\* the stream variables while the output of a command is not modelled
IdleStream ==
    /\ stdoutBuf = << >>
    /\ stderrBuf = << >>
    /\ chunks = << >>
    /\ execResult = {}
    /\ clientEnded = 0

IdleMore == IdleCache /\ IdleCfg /\ IdleAgent /\ IdleStream

\* the resolution variables while no resolution is modelled
IdleRes ==
    /\ aliasFile = [state |-> "missing", sections |-> << >>, mtime |-> 1]
    /\ cachedHosts = {}
    /\ cachedConfigPath = {}
    /\ cachedMtime = {}
    /\ envUser = [USER |-> {}, USERNAME |-> {}]
    /\ identifier = << "h" >>
    /\ directOptions = {}
    /\ resolved = {}
    /\ effective = {}
    /\ rpc = "start"
    /\ calls = 0
    /\ mods = 0

N == Len(hosts)

(***************************************************************************)
(* Results (types.ts)                                                      *)
(***************************************************************************)

ExecuteResult(host, success, exitCode, error) ==
    [host |-> host, success |-> success, exitCode |-> exitCode,
     stdout |-> {}, stderr |-> {}, error |-> error, localPath |-> {}]

TransferResult(host, success, lp, error) ==
    [host |-> host, success |-> success, exitCode |-> {},
     stdout |-> {}, stderr |-> {}, error |-> error, localPath |-> {lp}]

\* the result of executeCommand when the stream closes: code is what ssh2 hands
\* to the close listener, {} when it is null or undefined
CompletedResult(host, code) ==
    [host |-> host, success |-> code = {0}, exitCode |-> code,
     stdout |-> {"stdout"}, stderr |-> {"stderr"}, error |-> {}, localPath |-> {}]

\* a worker promise that fulfilled with r, and one that rejected
Fulfilled(r) == [rejected |-> FALSE, res |-> {r}]
Rejected == [rejected |-> TRUE, res |-> {}]

\* the local path a transfer worker hands to uploadFile / downloadFile
TransferPath(j) ==
    IF op = "download" THEN DownloadLocalPath(hosts, localPath, hosts[j]) ELSE localPath

\* the failure result of the catch block and of the error callbacks
FailureResult(j, error) ==
    IF op = "execute"
    THEN ExecuteResult(hosts[j], FALSE, {}, {error})
    ELSE TransferResult(hosts[j], FALSE, TransferPath(j), {error})

(***************************************************************************)
(* runWithConcurrency (utils.ts) and its workers (ssh/client.ts,           *)
(* tools/transfer.ts)                                                      *)
(***************************************************************************)

\* concurrency values: a negative one, zero and the positive ones up to MaxLimit
Limits == (0 - 1)..MaxLimit

\* a mutant of MustAwait: a limit that is not positive is taken as no limit
MustAwait_PositiveOnly(size, concurrency) == concurrency > 0 /\ size >= concurrency

\* a mutant of MustAwait: the loop awaits a completion after every item
MustAwait_Always(size, concurrency) == TRUE

\* a mutant of MustAwait: the loop never awaits, every item starts at once
MustAwait_Never(size, concurrency) == FALSE

\* a mutant of MustAwait: the window is one too wide
MustAwait_OffByOne(size, concurrency) == size > concurrency

\* if (executing.size >= concurrency) await Promise.race(executing)
MustAwait(size, concurrency) == size >= concurrency

\* the index of the first hole of the results array
FirstHole(res) ==
    IF \E k \in DOMAIN res : res[k] = {}
    THEN CHOOSE k \in DOMAIN res : res[k] = {} /\ \A m \in DOMAIN res : m < k => res[m] # {}
    ELSE 0

\* a mutant of StoreResult: results are appended in completion order
StoreResult_Push(res, index, result) ==
    IF FirstHole(res) = 0 THEN res ELSE [res EXCEPT ![FirstHole(res)] = {result}]

\* results[index] = result
StoreResult(res, index, result) == [res EXCEPT ![index] = {result}]

\* a mutant of WorkerThrows: the substituted path is not checked
WorkerThrows_Never(k) == FALSE

\* does the worker throw before it returns a promise? (the download worker of
\* transfer() is not async: resolveLocalPath throws inside runWithConcurrency's loop)
WorkerThrows(k) ==
    /\ op = "download"
    /\ DownloadPathThrows(hosts, localPath, hosts[k])

\* a mutant of DirMissing: the directory is taken to exist, mkdirSync is skipped
DirMissing_Never(k, dirs) == FALSE

\* downloadFile: the parent directory of the destination is missing
DirMissing(k, dirs) ==
    /\ op = "download"
    /\ dirname(TransferPath(k)) \notin dirs

\* the worker invocation after its synchronous part, up to its first await
StartedWorker(k, dirs) ==
    IF op = "task"
    THEN [st |-> "running"] @@ [rejected |-> FALSE, res |-> {}]
    ELSE IF DirMissing(k, dirs) /\ ~mkdirWorks
         THEN [st |-> "settled"] @@ Fulfilled(FailureResult(k, "mkdir failed"))
         ELSE [st |-> "connecting"] @@ [rejected |-> FALSE, res |-> {}]

\* the state of the call as a record, for the synchronous run of the loop
Cur ==
    [pc |-> pc, i |-> i, executing |-> executing, awaited |-> awaited,
     w |-> w, sess |-> sess, localDirs |-> localDirs]

\* the for loop from item k up to its next await, its return or its throw
RECURSIVE RunLoop(_, _)
RunLoop(k, s) ==
    IF k > N
    THEN [s EXCEPT !.pc = "all", !.i = k, !.awaited = s.executing]
    ELSE IF WorkerThrows(k)
    THEN [s EXCEPT !.pc = "rejected", !.i = k]
    ELSE LET started == StartedWorker(k, s.localDirs)
             s1 == [s EXCEPT
                      !.w[k] = started,
                      !.sess[k] = IF started.st = "connecting" THEN "connecting" ELSE "none",
                      !.localDirs = IF DirMissing(k, s.localDirs) /\ mkdirWorks
                                    THEN @ \cup {dirname(TransferPath(k))}
                                    ELSE @,
                      !.executing = @ \cup {k}]
         IN  IF MustAwait(Cardinality(s1.executing), maxConcurrency)
             THEN [s1 EXCEPT !.pc = "race", !.i = k + 1, !.awaited = s1.executing]
             ELSE RunLoop(k + 1, s1)

Apply(s) ==
    /\ pc' = s.pc
    /\ i' = s.i
    /\ executing' = s.executing
    /\ awaited' = s.awaited
    /\ w' = s.w
    /\ sess' = s.sess
    /\ localDirs' = s.localDirs

inputVars == << op, hosts, localPath, maxConcurrency, mkdirWorks >>

InitRun ==
    /\ IdleMore
    /\ IdleEv
    /\ IdleSan
    /\ IdlePlan
    /\ IdleConn
    /\ IdleRes
    /\ op \in Ops
    /\ hosts \in HostLists
    /\ maxConcurrency \in Limits
    /\ localPath \in (IF op = "download" THEN LocalPaths ELSE {PathPlain})
    /\ mkdirWorks \in (IF op = "download" THEN BOOLEAN ELSE {TRUE})
    /\ localDirs = {}
    /\ pc = "idle"
    /\ i = 1
    /\ executing = {}
    /\ awaited = {}
    /\ raceWinner = 0
    /\ results = [j \in 1..Len(hosts) |-> {}]
    /\ w = [j \in 1..Len(hosts) |-> [st |-> "idle", rejected |-> FALSE, res |-> {}]]
    /\ sess = [j \in 1..Len(hosts) |-> "none"]

\* the call: the loop runs up to its first await
Call ==
    /\ pc = "idle"
    /\ Apply(RunLoop(1, Cur))
    /\ UNCHANGED << planVars, evVars, sanVars, moreVars, connVars, resVars, inputVars, raceWinner, results >>

\* await Promise.race(executing) resumes: it throws when the first promise that
\* settled rejected, and otherwise the loop goes on
ResumeRace ==
    /\ pc = "race"
    /\ raceWinner # 0
    /\ IF w[raceWinner].rejected
       THEN /\ pc' = "rejected"
            /\ UNCHANGED << i, executing, awaited, w, sess, localDirs >>
       ELSE Apply(RunLoop(i, Cur))
    /\ raceWinner' = 0
    /\ UNCHANGED << planVars, evVars, sanVars, moreVars, connVars, resVars, inputVars, results >>

\* a mutant of ResumeAll: the call returns without awaiting what is left
ResumeAll_NoWait ==
    /\ pc = "all"
    /\ pc' = "returned"
    /\ UNCHANGED << planVars, evVars, sanVars, moreVars, connVars, resVars, inputVars, localDirs, i, executing, awaited, raceWinner, results, w, sess >>

\* await Promise.all(executing) resumes, with a rejection as soon as one of the
\* promises rejected and with the return once all of them fulfilled
ResumeAll ==
    /\ pc = "all"
    /\ \/ /\ \E j \in awaited : w[j].st = "done" /\ w[j].rejected
          /\ pc' = "rejected"
       \/ /\ \A j \in awaited : w[j].st = "done" /\ ~w[j].rejected
          /\ pc' = "returned"
    /\ UNCHANGED << planVars, evVars, sanVars, moreVars, connVars, resVars, inputVars, localDirs, i, executing, awaited, raceWinner, results, w, sess >>

\* a worker promise settles
Settle(j, settlement) ==
    w' = [w EXCEPT ![j] = [st |-> "settled"] @@ settlement]

runnerVars == << pc, i, executing, awaited, raceWinner, results >>

\* the value a "task" worker fulfils with
TaskValue(j) == ExecuteResult(hosts[j], TRUE, {}, {})

\* the worker of a "task" call settles
TaskSettles(j) ==
    /\ op = "task"
    /\ w[j].st = "running"
    /\ \/ Settle(j, Fulfilled(TaskValue(j)))
       \/ Settle(j, Rejected)
    /\ UNCHANGED << planVars, evVars, sanVars, moreVars, connVars, resVars, inputVars, localDirs, runnerVars, sess >>

\* connect(): "ready" comes first and the promise resolves with the client
ConnectReady(j) ==
    /\ w[j].st = "connecting"
    /\ w' = [w EXCEPT ![j].st = "connected"]
    /\ sess' = [sess EXCEPT ![j] = "open"]
    /\ UNCHANGED << planVars, evVars, sanVars, moreVars, connVars, resVars, inputVars, localDirs, runnerVars >>

\* a mutant of OnConnectError: no catch block, the rejection of connect() leaves the worker
OnConnectError_Uncaught(j) == Rejected

\* the catch block of executeCommand / uploadFile / downloadFile after connect() rejected
OnConnectError(j) == Fulfilled(FailureResult(j, "connect failed"))

\* connect(): "error" or "close" comes first; cleanup() ends the client and the
\* promise rejects
ConnectError(j) ==
    /\ w[j].st = "connecting"
    /\ Settle(j, OnConnectError(j))
    /\ sess' = [sess EXCEPT ![j] = "failed"]
    /\ UNCHANGED << planVars, evVars, sanVars, moreVars, connVars, resVars, inputVars, localDirs, runnerVars >>

\* executeCommand: the exec callback gets an error; the client is not ended
ExecError(j) ==
    /\ op = "execute"
    /\ w[j].st = "connected"
    /\ Settle(j, Fulfilled(FailureResult(j, "exec failed")))
    /\ UNCHANGED << planVars, evVars, sanVars, moreVars, connVars, resVars, inputVars, localDirs, runnerVars, sess >>

\* executeCommand: client.exec throws; the catch block ends the client
ExecThrows(j) ==
    /\ op = "execute"
    /\ w[j].st = "connected"
    /\ Settle(j, Fulfilled(FailureResult(j, "exec threw")))
    /\ sess' = [sess EXCEPT ![j] = "closed"]
    /\ UNCHANGED << planVars, evVars, sanVars, moreVars, connVars, resVars, inputVars, localDirs, runnerVars >>

\* executeCommand: the exec callback gets the stream
ExecStarted(j) ==
    /\ op = "execute"
    /\ w[j].st = "connected"
    /\ w' = [w EXCEPT ![j].st = "running"]
    /\ UNCHANGED << planVars, evVars, sanVars, moreVars, connVars, resVars, inputVars, localDirs, runnerVars, sess >>

\* executeCommand: the stream closes
StreamClose(j, code) ==
    /\ op = "execute"
    /\ w[j].st = "running"
    /\ Settle(j, Fulfilled(CompletedResult(hosts[j], code)))
    /\ sess' = [sess EXCEPT ![j] = "closed"]
    /\ UNCHANGED << planVars, evVars, sanVars, moreVars, connVars, resVars, inputVars, localDirs, runnerVars >>

\* uploadFile / downloadFile: the sftp callback gets an error
SftpError(j) ==
    /\ op \in {"upload", "download"}
    /\ w[j].st = "connected"
    /\ Settle(j, Fulfilled(FailureResult(j, "sftp failed")))
    /\ sess' = [sess EXCEPT ![j] = "closed"]
    /\ UNCHANGED << planVars, evVars, sanVars, moreVars, connVars, resVars, inputVars, localDirs, runnerVars >>

\* uploadFile / downloadFile: client.sftp throws; the catch block ends the client
SftpThrows(j) ==
    /\ op \in {"upload", "download"}
    /\ w[j].st = "connected"
    /\ Settle(j, Fulfilled(FailureResult(j, "sftp threw")))
    /\ sess' = [sess EXCEPT ![j] = "closed"]
    /\ UNCHANGED << planVars, evVars, sanVars, moreVars, connVars, resVars, inputVars, localDirs, runnerVars >>

\* uploadFile / downloadFile: the sftp callback gets the sftp session
SftpOpened(j) ==
    /\ op \in {"upload", "download"}
    /\ w[j].st = "connected"
    /\ w' = [w EXCEPT ![j].st = "running"]
    /\ UNCHANGED << planVars, evVars, sanVars, moreVars, connVars, resVars, inputVars, localDirs, runnerVars, sess >>

\* uploadFile / downloadFile: the fastPut / fastGet callback
FastTransferDone(j, ok) ==
    /\ op \in {"upload", "download"}
    /\ w[j].st = "running"
    /\ Settle(j, Fulfilled(IF ok
                          THEN TransferResult(hosts[j], TRUE, TransferPath(j), {})
                          ELSE FailureResult(j, "transfer failed")))
    /\ sess' = [sess EXCEPT ![j] = "closed"]
    /\ UNCHANGED << planVars, evVars, sanVars, moreVars, connVars, resVars, inputVars, localDirs, runnerVars >>

\* The callbacks chained on the worker promise, which run one after the other once
\* it has settled: .then((result) => { results[index] = result; }), skipped when
\* the worker rejected, and .finally(() => { executing.delete(promise); }), after
\* which the promise in executing settles as the worker did.  Callbacks of other
\* items touch other indices, so the two are taken in one step.
ThenFinally(j) ==
    /\ w[j].st = "settled"
    /\ results' = IF w[j].rejected
                  THEN results
                  ELSE StoreResult(results, j, CHOOSE r \in w[j].res : TRUE)
    /\ executing' = executing \ {j}
    /\ w' = [w EXCEPT ![j].st = "done"]
    /\ raceWinner' = IF pc = "race" /\ j \in awaited /\ raceWinner = 0 THEN j ELSE raceWinner
    /\ UNCHANGED << planVars, evVars, sanVars, moreVars, connVars, resVars, inputVars, localDirs, pc, i, awaited, sess >>

NextRun ==
    \/ Call
    \/ ResumeRace
    \/ ResumeAll
    \/ \E j \in 1..N : TaskSettles(j)
    \/ \E j \in 1..N : ConnectReady(j)
    \/ \E j \in 1..N : ConnectError(j)
    \/ \E j \in 1..N : ExecError(j)
    \/ \E j \in 1..N : ExecThrows(j)
    \/ \E j \in 1..N : ExecStarted(j)
    \/ \E j \in 1..N, code \in CloseCodes : StreamClose(j, code)
    \/ \E j \in 1..N : SftpError(j)
    \/ \E j \in 1..N : SftpThrows(j)
    \/ \E j \in 1..N : SftpOpened(j)
    \/ \E j \in 1..N, ok \in BOOLEAN : FastTransferDone(j, ok)
    \/ \E j \in 1..N : ThenFinally(j)

(***************************************************************************)
(* Path derivation of a download on its own (tools/transfer.ts)            *)
(***************************************************************************)

\* the longest host list whose paths are derived
MaxPlanHosts == 2

\* host identifiers: "w", "..", "a/b", "a_b", "a..b"
PlanHostIds ==
    {HostW, HostUp, << "a", "/", "b" >>, << "a", "_", "b" >>, << "a", ".", ".", "b" >>}

\* local paths: "o.t", "{host}/o", "l/{host}.t", "./o", "d.x/{host}", "d/o.t",
\* "../o"
PlanPaths ==
    {PathPlain, PathPlaceholder,
     << "l", "/" >> \o HostPlaceholder \o << ".", "t" >>,
     << ".", "/", "o" >>,
     << "d", ".", "x", "/" >> \o HostPlaceholder,
     << "d", "/", "o", ".", "t" >>,
     << ".", ".", "/", "o" >>}

PlanHostLists == UNION {[1..n -> PlanHostIds] : n \in 1..MaxPlanHosts}

InitPlan ==
    /\ IdleMore
    /\ IdleEv
    /\ IdleSan
    /\ IdleRun
    /\ IdleConn
    /\ IdleRes
    /\ planHosts \in PlanHostLists
    /\ planLocalPath \in PlanPaths
    /\ planned = << >>

\* the download worker derives the local path of the next host, in the order the
\* loop of runWithConcurrency calls it; a throw ends the loop
PlanNextHost ==
    /\ Len(planned) < Len(planHosts)
    /\ \A k \in 1..Len(planned) : ~planned[k].threw
    /\ LET host == planHosts[Len(planned) + 1]
       IN  planned' = Append(planned,
               IF DownloadPathThrows(planHosts, planLocalPath, host)
               THEN [threw |-> TRUE, path |-> << >>]
               ELSE [threw |-> FALSE,
                     path |-> DownloadLocalPath(planHosts, planLocalPath, host)])
    /\ UNCHANGED << planHosts, planLocalPath, runVars, evVars, sanVars, moreVars, connVars, resVars >>

NextPlan == PlanNextHost

(***************************************************************************)
(* Host key verification and the connection configuration (ssh/client.ts)  *)
(***************************************************************************)

Whitespace == {" ", "\t"}

\* String.prototype.trim
RECURSIVE TrimLeft(_)
TrimLeft(s) == IF Len(s) > 0 /\ s[1] \in Whitespace THEN TrimLeft(Tail(s)) ELSE s

RECURSIVE TrimRight(_)
TrimRight(s) ==
    IF Len(s) > 0 /\ s[Len(s)] \in Whitespace THEN TrimRight(SubSeq(s, 1, Len(s) - 1)) ELSE s

Trim(s) == TrimRight(TrimLeft(s))

\* trimmed.split(/\s+/) of a string without leading or trailing whitespace
RECURSIVE SplitWsFrom(_, _, _)
SplitWsFrom(s, k, cur) ==
    IF k > Len(s) THEN << cur >>
    ELSE IF s[k] \in Whitespace
         THEN IF k > 1 /\ s[k - 1] \in Whitespace
              THEN SplitWsFrom(s, k + 1, cur)
              ELSE << cur >> \o SplitWsFrom(s, k + 1, << >>)
         ELSE SplitWsFrom(s, k + 1, Append(cur, s[k]))

SplitWs(s) == SplitWsFrom(s, 1, << >>)

\* parts[0].split(",")
RECURSIVE SplitCommaFrom(_, _, _)
SplitCommaFrom(s, k, cur) ==
    IF k > Len(s) THEN << cur >>
    ELSE IF s[k] = ","
         THEN << cur >> \o SplitCommaFrom(s, k + 1, << >>)
         ELSE SplitCommaFrom(s, k + 1, Append(cur, s[k]))

SplitComma(s) == SplitCommaFrom(s, 1, << >>)

\* a mutant of MapPush: a later key of a host token replaces the earlier ones
MapPush_Overwrite(hostKeys, hostname, key) ==
    IF hostname \in DOMAIN hostKeys
    THEN [hostKeys EXCEPT ![hostname] = << key >>]
    ELSE hostKeys @@ (hostname :> << key >>)

\* existing = hostKeys.get(hostname) || []; existing.push(key); hostKeys.set(...)
MapPush(hostKeys, hostname, key) ==
    IF hostname \in DOMAIN hostKeys
    THEN [hostKeys EXCEPT ![hostname] = Append(@, key)]
    ELSE hostKeys @@ (hostname :> << key >>)

RECURSIVE PushAll(_, _, _)
PushAll(hostKeys, hostnames, key) ==
    IF Len(hostnames) = 0 THEN hostKeys
    ELSE PushAll(MapPush(hostKeys, Head(hostnames), key), Tail(hostnames), key)

\* the empty Map
EmptyMap == [x \in {} |-> << >>]

\* one line of known_hosts: blank lines, comments and lines of fewer than three
\* tokens are skipped
ParseLine(hostKeys, line) ==
    LET trimmed == Trim(line)
        parts == SplitWs(trimmed)
    IN  IF Len(trimmed) = 0 \/ trimmed[1] = "#" THEN hostKeys
        ELSE IF Len(parts) < 3 THEN hostKeys
        ELSE PushAll(hostKeys, SplitComma(parts[1]),
                     [keyType |-> parts[2], keyData |-> parts[3]])

RECURSIVE ParseLines(_, _)
ParseLines(hostKeys, lines) ==
    IF Len(lines) = 0 THEN hostKeys
    ELSE ParseLines(ParseLine(hostKeys, Head(lines)), Tail(lines))

\* parseKnownHosts: the Map from host token to the keys listed for it
parseKnownHosts(file) ==
    IF file.state # "ok" THEN EmptyMap ELSE ParseLines(EmptyMap, file.lines)

\* the base64 alphabet
B64Alphabet ==
    << "A", "B", "C", "D", "E", "F", "G", "H", "I", "J", "K", "L", "M", "N", "O", "P",
     "Q", "R", "S", "T", "U", "V", "W", "X", "Y", "Z", "a", "b", "c", "d", "e", "f",
     "g", "h", "i", "j", "k", "l", "m", "n", "o", "p", "q", "r", "s", "t", "u", "v",
     "w", "x", "y", "z", "0", "1", "2", "3", "4", "5", "6", "7", "8", "9", "+", "/" >>

B64Char(n) == B64Alphabet[n + 1]

\* Buffer.prototype.toString("base64") of a sequence of bytes
RECURSIVE Base64(_)
Base64(bytes) ==
    IF Len(bytes) = 0 THEN << >>
    ELSE IF Len(bytes) = 1
    THEN << B64Char(bytes[1] \div 4), B64Char((bytes[1] % 4) * 16), "=", "=" >>
    ELSE IF Len(bytes) = 2
    THEN << B64Char(bytes[1] \div 4),
            B64Char((bytes[1] % 4) * 16 + bytes[2] \div 16),
            B64Char((bytes[2] % 16) * 4), "=" >>
    ELSE << B64Char(bytes[1] \div 4),
            B64Char((bytes[1] % 4) * 16 + bytes[2] \div 16),
            B64Char((bytes[2] % 16) * 4 + bytes[3] \div 64),
            B64Char(bytes[3] % 64) >>
         \o Base64(SubSeq(bytes, 4, Len(bytes)))

DigitChars == << "0", "1", "2", "3", "4", "5", "6", "7", "8", "9" >>

\* the decimal form of a port number inside a template string
RECURSIVE ToDecimal(_)
ToDecimal(n) ==
    IF n < 10 THEN << DigitChars[n + 1] >>
    ELSE ToDecimal(n \div 10) \o << DigitChars[(n % 10) + 1] >>

\* `[${hostname}]:${port}`
BracketVariant(hostname, port) ==
    << "[" >> \o hostname \o << "]", ":" >> \o ToDecimal(port)

\* [hostname, port !== 22 ? `[${hostname}]:${port}` : null].filter(Boolean)
hostVariants(hostname, port) ==
    SelectSeq(<< hostname >> \o (IF port # 22 THEN << BracketVariant(hostname, port) >> ELSE << >>),
              LAMBDA v : Len(v) > 0)

\* a mutant of UnknownHostVerdict: unknown hosts are trusted
UnknownHostVerdict_Trust == TRUE

\* the final return false of the verifier: the host is under no variant
UnknownHostVerdict == FALSE

\* the loop of the verifier over the host variants
RECURSIVE VerifyFrom(_, _, _)
VerifyFrom(variants, knownHosts, keyBase64) ==
    IF Len(variants) = 0 THEN UnknownHostVerdict
    ELSE IF Head(variants) \in DOMAIN knownHosts
         THEN \E k \in 1..Len(knownHosts[Head(variants)]) :
                  knownHosts[Head(variants)][k].keyData = keyBase64
         ELSE VerifyFrom(Tail(variants), knownHosts, keyBase64)

\* the function createHostVerifier returns, called with the presented key
HostVerifierCall(verifier, key) ==
    VerifyFrom(verifier.hostVariants, verifier.knownHosts, Base64(key))

\* createHostVerifier: undefined unless strict mode is on; the known_hosts file is
\* parsed when the verifier is created
createHostVerifier(hostname, port) ==
    IF ~strictHostKeyChecking
    THEN [verifier |-> {}, reads |-> 0]
    ELSE [verifier |-> {[knownHosts |-> parseKnownHosts(knownHostsFile),
                         hostVariants |-> hostVariants(hostname, port)]},
          reads |-> 1]

\* readyTimeout: timeout || 30000
DefaultReadyTimeout == 30000

\* is a string | undefined truthy?
Truthy(opt) == \E v \in opt : Len(v) > 0

ReadyTimeout(timeout) ==
    IF \E t \in timeout : t # 0 THEN CHOOSE t \in timeout : TRUE ELSE DefaultReadyTimeout

\* a mutant of createConnectConfig: the password branch returns before the host
\* verifier is installed
createConnectConfig_PasswordFirst(host, timeout) ==
    [host |-> host.hostname, port |-> host.port, username |-> host.user,
     readyTimeout |-> ReadyTimeout(timeout),
     hostVerifier |-> IF Truthy(host.password)
                      THEN {}
                      ELSE createHostVerifier(host.hostname, host.port).verifier,
     password |-> IF Truthy(host.password) THEN host.password ELSE {},
     agent |-> IF Truthy(host.password) THEN {}
               ELSE IF Truthy(agentSocket) THEN agentSocket ELSE {},
     privateKey |-> IF /\ ~Truthy(host.password)
                       /\ Truthy(host.identityFile)
                       /\ identityFs = "file"
                    THEN {"key material"} ELSE {}]

\* createConnectConfig, when readFileSync does not throw
createConnectConfig(host, timeout) ==
    [host |-> host.hostname, port |-> host.port, username |-> host.user,
     readyTimeout |-> ReadyTimeout(timeout),
     hostVerifier |-> createHostVerifier(host.hostname, host.port).verifier,
     password |-> IF Truthy(host.password) THEN host.password ELSE {},
     agent |-> IF Truthy(host.password) THEN {}
               ELSE IF Truthy(agentSocket) THEN agentSocket ELSE {},
     privateKey |-> IF /\ ~Truthy(host.password)
                       /\ Truthy(host.identityFile)
                       /\ identityFs = "file"
                    THEN {"key material"} ELSE {}]

\* createConnectConfig throws: readFileSync of an identity file that exists and
\* cannot be read
createConnectConfigThrows(host) ==
    /\ ~Truthy(host.password)
    /\ Truthy(host.identityFile)
    /\ identityFs = "unreadable"

(***************************************************************************)
(* The configured connection timeout (config.ts)                           *)
(***************************************************************************)

DigitValue(c) == CHOOSE n \in 0..9 : DigitChars[n + 1] = c

IsDigit(c) == \E n \in 1..10 : DigitChars[n] = c

\* the value of the longest prefix of digits of s, after acc
RECURSIVE DigitsPrefix(_, _)
DigitsPrefix(s, acc) ==
    IF Len(s) = 0 \/ ~IsDigit(s[1]) THEN acc
    ELSE DigitsPrefix(Tail(s), acc * 10 + DigitValue(s[1]))

\* parseInt(value, 10): leading whitespace and a sign are allowed, the digits that
\* follow are the value, and the result is NaN ({}) when no digit follows
parseInt(value) ==
    LET t == TrimLeft(value)
        signed == Len(t) > 0 /\ t[1] \in {"+", "-"}
        u == IF signed THEN Tail(t) ELSE t
    IN  IF Len(u) = 0 \/ ~IsDigit(u[1]) THEN {}
        ELSE IF signed /\ t[1] = "-" THEN {0 - DigitsPrefix(u, 0)}
        ELSE {DigitsPrefix(u, 0)}

\* parseNumber(value, defaultValue)
parseNumber(value, defaultValue) ==
    IF value = {} THEN defaultValue
    ELSE LET num == parseInt(CHOOSE v \in value : TRUE)
         IN  IF num = {} THEN defaultValue ELSE CHOOSE n \in num : TRUE

\* timeout: parseNumber(process.env.SSH_TIMEOUT, 30000)
ConfigDefaultTimeout == 30000

\* getConfig().timeout
ConfigTimeout == parseNumber(envSshTimeout, ConfigDefaultTimeout)

(***************************************************************************)
(* Inputs of a connection attempt                                          *)
(***************************************************************************)

\* the most lines of a known_hosts file
MaxLines == 2

\* "h ssh-rsa AA==": h has key A
Line1 == << "h", " ", "s", "s", "h", "-", "r", "s", "a", " ", "A", "A", "=", "=" >>

\* "h ssh-ed25519 ABA=": h has key B, another algorithm
Line2 == << "h", " ", "s", "s", "h", "-", "e", "d", "2", "5", "5", "1", "9", " ", "A", "B", "A", "=" >>

\* "[h]:2222 ssh-rsa ABA= c": port 2222 of h has key B; a trailing comment
Line3 == << "[", "h", "]", ":", "2", "2", "2", "2", " ", "s", "s", "h", "-", "r", "s", "a", " ", "A", "B", "A", "=", " ", "c" >>

\* "g,h ssh-rsa ABA=": g and h have key B
Line4 == << "g", ",", "h", " ", "s", "s", "h", "-", "r", "s", "a", " ", "A", "B", "A", "=" >>

\* "# h ssh-rsa ABA=": a comment
Line5 == << "#", " ", "h", " ", "s", "s", "h", "-", "r", "s", "a", " ", "A", "B", "A", "=" >>

\* "h ssh-rsa": fewer than three tokens
Line6 == << "h", " ", "s", "s", "h", "-", "r", "s", "a" >>

\* " ": blank
Line7 == << " " >>

\* ", x AA==": two empty host tokens with key A
Line8 == << ",", " ", "x", " ", "A", "A", "=", "=" >>

\* "[]:2222 x ABA=": port 2222 of the empty hostname has key B
Line9 == << "[", "]", ":", "2", "2", "2", "2", " ", "x", " ", "A", "B", "A", "=" >>


KnownHostsLines == {Line1, Line2, Line3, Line4, Line5, Line6, Line7, Line8, Line9}

KnownHostsFiles ==
    {[state |-> "missing", lines |-> << >>], [state |-> "unreadable", lines |-> << >>]}
    \cup {[state |-> "ok", lines |-> ls] :
            ls \in UNION {[1..n -> KnownHostsLines] : n \in 0..MaxLines}}

\* host keys the server may present: base64 AA== and ABA=
KeyA == << 0 >>
KeyB == << 0, 16 >>
PresentedKeys == {KeyA, KeyB}

\* hostnames: "", "h", "g"
Hostnames == {<< >>, << "h" >>, << "g" >>}

Ports == {22, 2222}

\* SSH_TIMEOUT: unset, "7000", "x"
EnvSshTimeouts == {{}, {<< "7", "0", "0", "0" >>}, {<< "x" >>}}

\* a connection attempt in front of any known_hosts file
InitVerify ==
    /\ IdleMore
    /\ IdleEv
    /\ IdleSan
    /\ IdleRun
    /\ IdlePlan
    /\ IdleRes
    /\ envSshTimeout = {}
    /\ strictHostKeyChecking \in BOOLEAN
    /\ knownHostsFile \in KnownHostsFiles
    /\ hostRec \in [hostname : Hostnames, port : Ports, user : {<< "u" >>},
                    password : {{}}, identityFile : {{}}]
    /\ timeoutArg = {}
    /\ agentSocket = {}
    /\ identityFs = "missing"
    /\ connectConfig = {}
    /\ knownHostsReads = 0
    /\ presentedKey = {}
    /\ verdict = {}
    /\ cpc = "start"

\* a connection attempt with any credentials
InitConfig ==
    /\ IdleMore
    /\ IdleEv
    /\ IdleSan
    /\ IdleRun
    /\ IdlePlan
    /\ IdleRes
    /\ envSshTimeout \in EnvSshTimeouts
    /\ strictHostKeyChecking \in BOOLEAN
    /\ knownHostsFile \in {[state |-> "missing", lines |-> << >>],
                           [state |-> "ok", lines |-> << Line1 >>]}
    /\ hostRec \in [hostname : {<< "h" >>}, port : Ports, user : {<< "u" >>},
                    password : {{}, {<< >>}, {<< "p" >>}},
                    identityFile : {{}, {<< "k" >>}}]
    /\ timeoutArg \in {{}, {0}, {5000}}
    /\ agentSocket \in {{}, {<< "s" >>}}
    /\ identityFs \in {"missing", "file", "unreadable"}
    /\ connectConfig = {}
    /\ knownHostsReads = 0
    /\ presentedKey = {}
    /\ verdict = {}
    /\ cpc = "start"

\* connect(): createConnectConfig(host, timeout)
CreateConnectConfig ==
    /\ cpc = "start"
    /\ knownHostsReads' =
           knownHostsReads + createHostVerifier(hostRec.hostname, hostRec.port).reads
    /\ IF createConnectConfigThrows(hostRec)
       THEN /\ connectConfig' = {}
            /\ cpc' = "threw"
       ELSE /\ connectConfig' = {createConnectConfig(hostRec, timeoutArg)}
            /\ cpc' = "configured"
    /\ UNCHANGED << strictHostKeyChecking, knownHostsFile, hostRec, timeoutArg,
                    agentSocket, identityFs, presentedKey, verdict, envSshTimeout,
                    runVars, planVars, evVars, sanVars, moreVars, resVars >>

\* the handshake: ssh2 calls config.hostVerifier, when there is one, with the key
\* the server presents
HostVerify(key) ==
    /\ cpc = "configured"
    /\ \E c \in connectConfig :
        /\ c.hostVerifier # {}
        /\ verdict' = {HostVerifierCall(CHOOSE v \in c.hostVerifier : TRUE, key)}
    /\ presentedKey' = {key}
    /\ cpc' = "verified"
    /\ UNCHANGED << strictHostKeyChecking, knownHostsFile, hostRec, timeoutArg,
                    agentSocket, identityFs, connectConfig, knownHostsReads,
                    envSshTimeout, runVars, planVars, evVars, sanVars, moreVars, resVars >>

NextConn ==
    \/ CreateConnectConfig
    \/ \E key \in PresentedKeys : HostVerify(key)

(***************************************************************************)
(* Host resolution and override merging (ssh/config.ts, ssh/client.ts,     *)
(* server.ts)                                                              *)
(***************************************************************************)

\* does the Host pattern match the name? ("*" any run of characters, "?" one)
RECURSIVE Glob(_, _)
Glob(pat, name) ==
    IF Len(pat) = 0 THEN Len(name) = 0
    ELSE IF pat[1] = "*"
         THEN Glob(Tail(pat), name) \/ (Len(name) > 0 /\ Glob(pat, Tail(name)))
    ELSE IF pat[1] = "?"
         THEN Len(name) > 0 /\ Glob(Tail(pat), Tail(name))
    ELSE Len(name) > 0 /\ pat[1] = name[1] /\ Glob(Tail(pat), Tail(name))

\* a Host section whose patterns match the name
SectionMatches(sec, name) ==
    /\ sec.type = 1
    /\ sec.param = "Host"
    /\ \E k \in 1..Len(sec.value) : Glob(sec.value[k], name)

\* config.compute(name)[param]: the first value obtained for the parameter wins
compute(sections, name, param) ==
    LET idx == {k \in 1..Len(sections) :
                  SectionMatches(sections[k], name) /\ sections[k].config[param] # {}}
    IN  IF idx = {} THEN {}
        ELSE sections[CHOOSE k \in idx : \A m \in idx : k <= m].config[param]

\* homedir()
HomeDir == << "/", "r" >>

\* s.replace(pat, rep) with a string pattern: the first occurrence only
RECURSIVE ReplaceFirstFrom(_, _, _, _)
ReplaceFirstFrom(s, k, pat, rep) ==
    IF k > Len(s) THEN << >>
    ELSE IF StartsWithAt(s, k, pat)
         THEN rep \o SubSeq(s, k + Len(pat), Len(s))
         ELSE << s[k] >> \o ReplaceFirstFrom(s, k + 1, pat, rep)

ReplaceFirst(s, pat, rep) == ReplaceFirstFrom(s, 1, pat, rep)

\* process.env.USER || process.env.USERNAME || "root"
DefaultUser ==
    IF Truthy(envUser.USER) THEN CHOOSE v \in envUser.USER : TRUE
    ELSE IF Truthy(envUser.USERNAME) THEN CHOOSE v \in envUser.USERNAME : TRUE
    ELSE << "r", "o", "o", "t" >>

\* the value of a string option that is truthy, and otherwise the fallback
OrElse(opt, fallback) == IF Truthy(opt) THEN CHOOSE v \in opt : TRUE ELSE fallback

\* the SSHHost pushed for one name of a Host section; port is {} when parseInt
\* gives NaN
HostOfName(sections, name) ==
    [name |-> name,
     hostname |-> OrElse(compute(sections, name, "HostName"), name),
     port |-> parseInt(OrElse(compute(sections, name, "Port"), << "2", "2" >>)),
     user |-> OrElse(compute(sections, name, "User"), DefaultUser),
     password |-> {},
     identityFile |-> {ReplaceFirst(v, << "~" >>, HomeDir) :
                         v \in compute(sections, name, "IdentityFile")}]

\* a mutant of HostsOfNames: a name with "*" or "?" is pushed like any other
RECURSIVE HostsOfNames_NoFilter(_, _)
HostsOfNames_NoFilter(sections, names) ==
    IF Len(names) = 0 THEN << >>
    ELSE << HostOfName(sections, Head(names)) >>
         \o HostsOfNames_NoFilter(sections, Tail(names))

\* the hosts of one section: none for a section that is not a Host section, for
\* the value "" or "*", and for every name with "*" or "?"
RECURSIVE HostsOfNames(_, _)
HostsOfNames(sections, names) ==
    IF Len(names) = 0 THEN << >>
    ELSE (IF Includes(Head(names), << "*" >>) \/ Includes(Head(names), << "?" >>)
          THEN << >>
          ELSE << HostOfName(sections, Head(names)) >>)
         \o HostsOfNames(sections, Tail(names))

HostsOfSection(sections, sec) ==
    IF sec.type # 1 \/ sec.param # "Host" THEN << >>
    ELSE IF Len(sec.value) = 1 /\ sec.value[1] \in {<< >>, << "*" >>} THEN << >>
    ELSE HostsOfNames(sections, sec.value)

RECURSIVE HostsFrom(_, _)
HostsFrom(sections, k) ==
    IF k > Len(sections) THEN << >>
    ELSE HostsOfSection(sections, sections[k]) \o HostsFrom(sections, k + 1)

\* getSSHConfigPath()
SshConfigPath == "config"

\* a mutant of isCacheValid: the path of the cached parse is not compared
isCacheValid_AnyPath(configPath) ==
    /\ cachedHosts # {}
    /\ aliasFile.state # "missing"
    /\ cachedMtime = {aliasFile.mtime}

\* isCacheValid(configPath): statSync throws for a missing file
isCacheValid(configPath) ==
    /\ cachedHosts # {}
    /\ cachedConfigPath = {configPath}
    /\ aliasFile.state # "missing"
    /\ cachedMtime = {aliasFile.mtime}

\* what a call of parseSSHConfig gives: the list returned or the throw, and the cache
ParseOutcome(threw, hostList, mtime) ==
    [threw |-> threw, hosts |-> hostList,
     cachedHosts |-> {hostList}, cachedConfigPath |-> {SshConfigPath}, cachedMtime |-> mtime]

\* a mutant of OnParseError: no try around the read and the parse, as in the
\* parser without the cache
OnParseError_Uncaught == ParseOutcome(TRUE, << >>, {})

\* the catch block of parseSSHConfig
OnParseError == ParseOutcome(FALSE, << >>, {})

\* readFileSync or SSHConfigParser.parse throws
ParseThrows == aliasFile.state \in {"unreadable", "malformed"}

parseSSHConfig ==
    IF isCacheValid(SshConfigPath)
    THEN [threw |-> FALSE, hosts |-> CHOOSE h \in cachedHosts : TRUE,
          cachedHosts |-> cachedHosts, cachedConfigPath |-> cachedConfigPath,
          cachedMtime |-> cachedMtime]
    ELSE IF aliasFile.state = "missing" THEN ParseOutcome(FALSE, << >>, {})
    ELSE IF ParseThrows THEN OnParseError
    ELSE ParseOutcome(FALSE, HostsFrom(aliasFile.sections, 1), {aliasFile.mtime})

\* a mutant of findHost: the HostName of an alias is accepted as its name
findHost_ByHostName(hostList, name) ==
    LET idx == {k \in 1..Len(hostList) :
                  hostList[k].name = name \/ hostList[k].hostname = name}
    IN  IF idx = {} THEN {} ELSE {hostList[CHOOSE k \in idx : \A m \in idx : k <= m]}

\* hosts.find((h) => h.name === name), {} when undefined
findHost(hostList, name) ==
    LET idx == {k \in 1..Len(hostList) : hostList[k].name = name}
    IN  IF idx = {} THEN {} ELSE {hostList[CHOOSE k \in idx : \A m \in idx : k <= m]}

\* resolveHost(nameOrHostname), given the list parseSSHConfig returned
resolveHost(hostList, nameOrHostname) ==
    IF findHost(hostList, nameOrHostname) # {}
    THEN CHOOSE h \in findHost(hostList, nameOrHostname) : TRUE
    ELSE [name |-> nameOrHostname, hostname |-> nameOrHostname, port |-> {22},
          user |-> DefaultUser, password |-> {}, identityFile |-> {}]

\* the handler of ssh_execute / ssh_transfer: directOptions is built only when one
\* of the four arguments is truthy
BuildDirectOptions(args) ==
    IF \/ Truthy(args.username)
       \/ Truthy(args.password)
       \/ \E n \in args.port : n # 0
       \/ Truthy(args.privateKeyPath)
    THEN {args}
    ELSE {}

\* applyDirectOptions(host, options)
applyDirectOptions(host, options) ==
    IF options = {} THEN host
    ELSE LET o == CHOOSE x \in options : TRUE
         IN  [name |-> host.name,
              hostname |-> host.hostname,
              user |-> OrElse(o.username, host.user),
              password |-> o.password,
              port |-> IF \E n \in o.port : n # 0 THEN o.port ELSE host.port,
              identityFile |-> IF Truthy(o.privateKeyPath)
                               THEN o.privateKeyPath ELSE host.identityFile]

(***************************************************************************)
(* Inputs of a resolution                                                  *)
(***************************************************************************)

\* the most resolutions in a row
MaxCalls == 2

\* the most modifications of the alias file
MaxMods == 1

NoConfig == [HostName |-> {}, Port |-> {}, User |-> {}, IdentityFile |-> {}]

HostSection(patterns, config) ==
    [type |-> 1, param |-> "Host", value |-> patterns, config |-> config]

\* Host a / HostName h / Port 2222 / User r / IdentityFile ~/k
SecA ==
    HostSection(<< << "a" >> >>,
                [HostName |-> {<< "h" >>}, Port |-> {<< "2", "2", "2", "2" >>},
                 User |-> {<< "r" >>}, IdentityFile |-> {<< "~", "/", "k" >>}])

\* Host a b
SecAB == HostSection(<< << "a" >>, << "b" >> >>, NoConfig)

\* Host * / User s
SecStar == HostSection(<< << "*" >> >>, [NoConfig EXCEPT !.User = {<< "s" >>}])

\* Host a / HostName g: a second section of the alias a
SecA2 == HostSection(<< << "a" >> >>, [NoConfig EXCEPT !.HostName = {<< "g" >>}])

\* Host a* h / Port x
SecGlob == HostSection(<< << "a", "*" >>, << "h" >> >>, [NoConfig EXCEPT !.Port = {<< "x" >>}])

\* Host a? b / Port 0
SecQuery == HostSection(<< << "a", "?" >>, << "b" >> >>, [NoConfig EXCEPT !.Port = {<< "0" >>}])

\* Match all
SecMatch == [type |-> 1, param |-> "Match", value |-> << << "a", "l", "l" >> >>, config |-> NoConfig]

\* the contents of the alias file that parse
AliasContents ==
    {<< >>, << SecA >>, << SecAB, SecStar >>, << SecA, SecA2 >>, << SecGlob, SecMatch >>,
     << SecQuery >>}

\* the alias file: missing, unreadable, malformed (the parser throws), or parsed
\* into sections
AliasFileStates ==
    {[state |-> "missing", sections |-> << >>],
     [state |-> "unreadable", sections |-> << >>],
     [state |-> "malformed", sections |-> << >>]}
    \cup {[state |-> "ok", sections |-> c] : c \in AliasContents}

\* identifiers: "a", "b", "h", "a*"
Identifiers == {<< "a" >>, << "b" >>, << "h" >>, << "a", "*" >>}

\* USER and USERNAME of the environment
EnvUsers ==
    {[USER |-> {}, USERNAME |-> {}],
     [USER |-> {<< >>}, USERNAME |-> {<< "n" >>}],
     [USER |-> {<< "u" >>}, USERNAME |-> {}]}

Arg(username, password, port, privateKeyPath) ==
    [username |-> username, password |-> password, port |-> port,
     privateKeyPath |-> privateKeyPath]

\* the connection arguments of a tool call: absent, empty or zero, and set
ToolArgs ==
    {Arg({}, {}, {}, {}),
     Arg({<< >>}, {}, {}, {}),
     Arg({}, {}, {0}, {}),
     Arg({<< "v" >>}, {}, {}, {}),
     Arg({}, {<< "p" >>}, {}, {}),
     Arg({<< >>}, {<< "p" >>}, {}, {}),
     Arg({}, {<< "p" >>}, {0}, {}),
     Arg({}, {}, {2200}, {}),
     Arg({}, {}, {}, {<< "k" >>}),
     Arg({<< "v" >>}, {<< "p" >>}, {2200}, {<< "k" >>})}

InitResolve ==
    /\ IdleMore
    /\ IdleEv
    /\ IdleSan
    /\ IdleRun
    /\ IdlePlan
    /\ IdleConn
    /\ \E f \in AliasFileStates :
           aliasFile = [state |-> f.state, sections |-> f.sections, mtime |-> 1]
    /\ cachedHosts = {}
    /\ cachedConfigPath = {}
    /\ cachedMtime = {}
    /\ envUser \in EnvUsers
    /\ identifier \in Identifiers
    /\ directOptions \in {BuildDirectOptions(args) : args \in ToolArgs}
    /\ resolved = {}
    /\ effective = {}
    /\ rpc = "start"
    /\ calls = 0
    /\ mods = 0

\* connect(): resolveHost(hostName), which parses the alias file or takes the cache
ResolveHost ==
    /\ rpc = "start"
    /\ LET parsed == parseSSHConfig
       IN  /\ cachedHosts' = parsed.cachedHosts
           /\ cachedConfigPath' = parsed.cachedConfigPath
           /\ cachedMtime' = parsed.cachedMtime
           /\ IF parsed.threw
              THEN /\ resolved' = {}
                   /\ rpc' = "threw"
              ELSE /\ resolved' = {resolveHost(parsed.hosts, identifier)}
                   /\ rpc' = "resolved"
    /\ UNCHANGED << aliasFile, envUser, identifier, directOptions, effective, calls, mods,
                    runVars, planVars, evVars, sanVars, moreVars, connVars >>

\* connect(): host = applyDirectOptions(host, directOptions)
ApplyDirectOptions ==
    /\ rpc = "resolved"
    /\ effective' = {applyDirectOptions(CHOOSE h \in resolved : TRUE, directOptions)}
    /\ rpc' = "merged"
    /\ UNCHANGED << aliasFile, cachedHosts, cachedConfigPath, cachedMtime, envUser,
                    identifier, directOptions, resolved, calls, mods,
                    runVars, planVars, evVars, sanVars, moreVars, connVars >>

\* the next connect() of the process, for the same identifier and options
NextCall ==
    /\ rpc = "merged"
    /\ calls + 1 < MaxCalls
    /\ calls' = calls + 1
    /\ resolved' = {}
    /\ effective' = {}
    /\ rpc' = "start"
    /\ UNCHANGED << aliasFile, cachedHosts, cachedConfigPath, cachedMtime, envUser,
                    identifier, directOptions, mods, runVars, planVars, evVars, sanVars, moreVars, connVars >>

\* the environment rewrites the alias file, removes it or changes its permissions
\* between two calls; the modification time stays (chmod, a rewrite within the
\* granularity of the clock) or grows
ModifyFile ==
    /\ rpc = "start"
    /\ mods < MaxMods
    /\ \E f \in AliasFileStates, t \in {aliasFile.mtime, aliasFile.mtime + 1} :
           /\ aliasFile' = [state |-> f.state, sections |-> f.sections, mtime |-> t]
           /\ aliasFile' # aliasFile
    /\ mods' = mods + 1
    /\ UNCHANGED << cachedHosts, cachedConfigPath, cachedMtime, envUser, identifier,
                    directOptions, resolved, effective, rpc, calls,
                    runVars, planVars, evVars, sanVars, moreVars, connVars >>

NextResolve ==
    \/ ResolveHost
    \/ ApplyDirectOptions
    \/ NextCall
    \/ ModifyFile

(***************************************************************************)
(* connect(): the ready, error and close events of the client              *)
(* (ssh/client.ts)                                                         *)
(***************************************************************************)

\* the most events the client emits during one connect()
MaxEvents == 4

\* error.message of the errors the transport reports
TransportErrors == {"Timed out while waiting for handshake",
                    "All configured authentication methods failed"}

ClosedUnexpectedly == "Connection closed unexpectedly"

\* the state of one connect() as a record, for its handlers
ConnState == [settled |-> settled, promise |-> promise, endCalls |-> endCalls]

\* resolve(value) and reject(reason): only the first call settles the promise
Resolve(c, value) ==
    IF c.promise.state = "pending"
    THEN [c EXCEPT !.promise = [state |-> "resolved", value |-> {value}]]
    ELSE c

Reject(c, reason) ==
    IF c.promise.state = "pending"
    THEN [c EXCEPT !.promise = [state |-> "rejected", value |-> {reason}]]
    ELSE c

\* a mutant of cleanup: the client is ended whether or not the attempt is settled
cleanup_Unguarded(c) == [c EXCEPT !.settled = TRUE, !.endCalls = @ + 1]

\* const cleanup = () => { if (!settled) { settled = true; client.end(); } }
cleanup(c) ==
    IF ~c.settled THEN [c EXCEPT !.settled = TRUE, !.endCalls = @ + 1] ELSE c

\* client.on("ready", ...)
OnReady(c) ==
    IF ~c.settled THEN Resolve([c EXCEPT !.settled = TRUE], "client") ELSE c

\* client.on("error", (err) => { cleanup(); reject(err); })
OnError(c, err) == Reject(cleanup(c), err)

\* a mutant of OnClose: no listener for "close", as in connect() before the
\* settled flag
OnClose_Ignored(c) == c

\* client.on("close", ...)
OnClose(c) ==
    IF ~c.settled THEN Reject(cleanup(c), ClosedUnexpectedly) ELSE c

ApplyConn(c) ==
    /\ settled' = c.settled
    /\ promise' = c.promise
    /\ endCalls' = c.endCalls

InitConnect ==
    /\ IdleMore
    /\ IdleRun
    /\ IdlePlan
    /\ IdleConn
    /\ IdleRes
    /\ IdleSan
    /\ connPhase = "start"
    /\ emitted = << >>
    /\ settled = FALSE
    /\ promise = [state |-> "pending", value |-> {}]
    /\ endCalls = 0

\* the executor of the promise: resolveHost, applyDirectOptions and
\* createConnectConfig run and the listeners are registered before
\* client.connect(config); a throw of the executor rejects the promise
ConnectCall ==
    /\ connPhase = "start"
    /\ \E threw \in BOOLEAN :
         IF threw
         THEN /\ connPhase' = "threw"
              /\ ApplyConn(Reject(ConnState, "Cannot read identity file"))
         ELSE /\ connPhase' = "listening"
              /\ UNCHANGED << settled, promise, endCalls >>
    /\ UNCHANGED << emitted, runVars, planVars, connVars, resVars, sanVars, moreVars >>

\* the client emits "ready": its listener runs inside emit
EmitReady ==
    /\ connPhase = "listening"
    /\ Len(emitted) < MaxEvents
    /\ emitted' = Append(emitted, [name |-> "ready", err |-> {}])
    /\ ApplyConn(OnReady(ConnState))
    /\ UNCHANGED << connPhase, runVars, planVars, connVars, resVars, sanVars, moreVars >>

\* the client emits "error" with an Error
EmitError(err) ==
    /\ connPhase = "listening"
    /\ Len(emitted) < MaxEvents
    /\ emitted' = Append(emitted, [name |-> "error", err |-> {err}])
    /\ ApplyConn(OnError(ConnState, err))
    /\ UNCHANGED << connPhase, runVars, planVars, connVars, resVars, sanVars, moreVars >>

\* the client emits "close"
EmitClose ==
    /\ connPhase = "listening"
    /\ Len(emitted) < MaxEvents
    /\ emitted' = Append(emitted, [name |-> "close", err |-> {}])
    /\ ApplyConn(OnClose(ConnState))
    /\ UNCHANGED << connPhase, runVars, planVars, connVars, resVars, sanVars, moreVars >>

NextConnect ==
    \/ ConnectCall
    \/ EmitReady
    \/ \E err \in TransportErrors : EmitError(err)
    \/ EmitClose

(***************************************************************************)
(* sanitizeError (ssh/client.ts)                                           *)
(***************************************************************************)

LowerLetters == << "a", "b", "c", "d", "e", "f", "g", "h", "i", "j", "k", "l", "m",
                  "n", "o", "p", "q", "r", "s", "t", "u", "v", "w", "x", "y", "z" >>

UpperLetters == << "A", "B", "C", "D", "E", "F", "G", "H", "I", "J", "K", "L", "M",
                  "N", "O", "P", "Q", "R", "S", "T", "U", "V", "W", "X", "Y", "Z" >>

\* the lower-case form of a character, for the i flag
ToLowerCase(ch) ==
    IF \E k \in 1..Len(UpperLetters) : UpperLetters[k] = ch
    THEN LowerLetters[CHOOSE k \in 1..Len(UpperLetters) : UpperLetters[k] = ch]
    ELSE ch

\* the class \s
RegexSpace == Whitespace \cup {"\n", "\r"}

\* the class [=:\s]
RegexSeparator == {"=", ":"} \cup RegexSpace

\* the keyword matches at k, whatever the case
KeywordAt(s, k, keyword) ==
    /\ k + Len(keyword) - 1 <= Len(s)
    /\ \A n \in 1..Len(keyword) : ToLowerCase(s[k + n - 1]) = keyword[n]

\* the last index of the longest run of [=:\s] from p on, p - 1 when there is none
RECURSIVE SeparatorRunEnd(_, _)
SeparatorRunEnd(s, p) ==
    IF p <= Len(s) /\ s[p] \in RegexSeparator THEN SeparatorRunEnd(s, p + 1) ELSE p - 1

\* the last index of the longest run of \S from p on
RECURSIVE NonSpaceRunEnd(_, _)
NonSpaceRunEnd(s, p) ==
    IF p <= Len(s) /\ s[p] \notin RegexSpace THEN NonSpaceRunEnd(s, p + 1) ELSE p - 1

\* where \S+ can start after keyword[=:\s]+ matched at k: [=:\s]+ is greedy and
\* gives characters back until a character that is not whitespace follows
ValueStarts(s, k, keyword) ==
    {p \in (k + Len(keyword) + 1)..(SeparatorRunEnd(s, k + Len(keyword)) + 1) :
        p <= Len(s) /\ s[p] \notin RegexSpace}

\* the index of the last character of the match of /keyword[=:\s]+\S+/i at k, 0
\* when there is no match at k
MatchEnd(s, k, keyword) ==
    IF KeywordAt(s, k, keyword) /\ ValueStarts(s, k, keyword) # {}
    THEN NonSpaceRunEnd(s, CHOOSE p \in ValueStarts(s, k, keyword) :
                              \A q \in ValueStarts(s, k, keyword) : q <= p)
    ELSE 0

\* message.replace(/keyword[=:\s]+\S+/gi, replacement)
RECURSIVE RedactFrom(_, _, _, _)
RedactFrom(s, k, keyword, replacement) ==
    IF k > Len(s) THEN << >>
    ELSE IF MatchEnd(s, k, keyword) # 0
         THEN replacement \o RedactFrom(s, MatchEnd(s, k, keyword) + 1, keyword, replacement)
         ELSE << s[k] >> \o RedactFrom(s, k + 1, keyword, replacement)

Redact(s, keyword) ==
    RedactFrom(s, 1, keyword, keyword \o << ":", " ", "[", "R", "E", "D", "A", "C", "T", "E", "D", "]" >>)

\* sanitizeError(err), given err.message
sanitizeError(message) ==
    Redact(Redact(Redact(Redact(Redact(message,
        << "p", "a", "s", "s", "w", "o", "r", "d" >>),
        << "k", "e", "y" >>),
        << "s", "e", "c", "r", "e", "t" >>),
        << "t", "o", "k", "e", "n" >>),
        << "a", "u", "t", "h" >>)

\* the most words of an error message
MaxWords == 4

\* the words of an error message next to the password: "password", "KEY", "is",
\* " ", "="
MessageWords ==
    {<< "p", "a", "s", "s", "w", "o", "r", "d" >>, << "K", "E", "Y" >>, << "i", "s" >>, << " " >>, << "=" >>}

\* the passwords of the overrides: "hu", "s 3"
Passwords == {<< "h", "u" >>, << "s", " ", "3" >>}

RECURSIVE Concat(_)
Concat(words) == IF Len(words) = 0 THEN << >> ELSE Head(words) \o Concat(Tail(words))

\* the messages of up to MaxWords words, the password of the call among the words
Messages(password) ==
    {Concat(ws) : ws \in UNION {[1..n -> MessageWords \cup {password}] : n \in 0..MaxWords}}

InitSanitize ==
    /\ IdleMore
    /\ IdleRun
    /\ IdlePlan
    /\ IdleConn
    /\ IdleRes
    /\ IdleEv
    /\ suppliedPassword \in Passwords
    /\ errMessage \in Messages(suppliedPassword)
    /\ errorText = {}

\* the catch block or the error callback of executeCommand, uploadFile and
\* downloadFile: error: sanitizeError(err)
FailWith ==
    /\ errorText = {}
    /\ errorText' = {sanitizeError(errMessage)}
    /\ UNCHANGED << errMessage, suppliedPassword, runVars, planVars, connVars, resVars, evVars, moreVars >>

NextSanitize == FailWith

(***************************************************************************)
(* The parse cache of parseSSHConfig, with the file system as a second     *)
(* process (ssh/config.ts)                                                 *)
(***************************************************************************)

\* the values of SSH_CONFIG_PATH
ConfigPaths == {"config", "alt"}

\* the other variables of a resolution, which the cache does not depend on
CacheRest == << envUser, identifier, directOptions, resolved, effective, rpc >>

InitCache ==
    /\ IdleRun
    /\ IdlePlan
    /\ IdleConn
    /\ IdleEv
    /\ IdleSan
    /\ IdleCfg
    /\ IdleAgent
    /\ IdleStream
    /\ \E f \in AliasFileStates :
           aliasFile = [state |-> f.state, sections |-> f.sections, mtime |-> 1]
    /\ cachedHosts = {}
    /\ cachedConfigPath = {}
    /\ cachedMtime = {}
    /\ envUser = [USER |-> {}, USERNAME |-> {}]
    /\ identifier = << "h" >>
    /\ directOptions = {}
    /\ resolved = {}
    /\ effective = {}
    /\ rpc = "start"
    /\ calls = 0
    /\ mods = 0
    /\ sshConfigPath = "config"
    /\ pendingHosts = {}
    /\ cachePhase = "idle"
    /\ lastOutcome = "none"
    /\ lastList = {}

\* the three assignments of a parse that ends without a list
StoreEmpty ==
    /\ cachedHosts' = {<< >>}
    /\ cachedConfigPath' = {sshConfigPath}
    /\ cachedMtime' = {}

\* parseSSHConfig() up to the return of the cached list, of [] for a missing
\* file or a failing read or parse, or up to the end of the loop over the
\* sections: the content has been read and parsed, the mtime has not
ParseBegin ==
    /\ cachePhase = "idle"
    /\ calls < MaxCalls
    /\ calls' = calls + 1
    /\ IF isCacheValid(sshConfigPath)
       THEN /\ lastOutcome' = "hit"
            /\ lastList' = cachedHosts
            /\ UNCHANGED << cachedHosts, cachedConfigPath, cachedMtime, pendingHosts, cachePhase >>
       ELSE IF aliasFile.state = "missing"
       THEN /\ StoreEmpty
            /\ lastOutcome' = "missing"
            /\ lastList' = {<< >>}
            /\ UNCHANGED << pendingHosts, cachePhase >>
       ELSE IF ParseThrows
       THEN /\ StoreEmpty
            /\ lastOutcome' = "failed"
            /\ lastList' = {<< >>}
            /\ UNCHANGED << pendingHosts, cachePhase >>
       ELSE /\ pendingHosts' = {HostsFrom(aliasFile.sections, 1)}
            /\ cachePhase' = "parsed"
            /\ lastOutcome' = "reading"
            /\ lastList' = {}
            /\ UNCHANGED << cachedHosts, cachedConfigPath, cachedMtime >>
    /\ UNCHANGED << aliasFile, mods, sshConfigPath, CacheRest, coreVars, cfgVars, agentVars, streamVars >>

\* _cachedHosts = hosts; _cachedConfigPath = configPath; _cachedMtime =
\* statSync(configPath).mtimeMs, null when statSync throws; return hosts
ParseEnd ==
    /\ cachePhase = "parsed"
    /\ cachedHosts' = pendingHosts
    /\ cachedConfigPath' = {sshConfigPath}
    /\ cachedMtime' = IF aliasFile.state = "missing" THEN {} ELSE {aliasFile.mtime}
    /\ lastOutcome' = "parsed"
    /\ lastList' = pendingHosts
    /\ pendingHosts' = {}
    /\ cachePhase' = "idle"
    /\ UNCHANGED << aliasFile, calls, mods, sshConfigPath, CacheRest, coreVars, cfgVars, agentVars, streamVars >>

\* clearSSHConfigCache()
ClearCache ==
    /\ cachePhase = "idle"
    /\ cachedHosts # {}
    /\ cachedHosts' = {}
    /\ cachedConfigPath' = {}
    /\ cachedMtime' = {}
    /\ lastOutcome' = "cleared"
    /\ UNCHANGED << aliasFile, calls, mods, sshConfigPath, pendingHosts, cachePhase, lastList,
                    CacheRest, coreVars, cfgVars, agentVars, streamVars >>

\* the configuration is reloaded with another SSH_CONFIG_PATH: the file at the
\* configured path is another file
ChangePath ==
    /\ cachePhase = "idle"
    /\ \E path \in ConfigPaths \ {sshConfigPath} :
           sshConfigPath' = path
    /\ \E f \in AliasFileStates, t \in 1..(MaxMods + 1) :
           aliasFile' = [state |-> f.state, sections |-> f.sections, mtime |-> t]
    /\ UNCHANGED << cachedHosts, cachedConfigPath, cachedMtime, calls, mods, pendingHosts,
                    cachePhase, lastOutcome, lastList, CacheRest, coreVars, cfgVars, agentVars, streamVars >>

NextCache ==
    \/ ParseBegin
    \/ ParseEnd
    \/ ClearCache
    \/ ChangePath
    \/ ModifyFile

(***************************************************************************)
(* getConfig / resetConfig (config.ts)                                     *)
(***************************************************************************)

\* the most getConfig() calls
MaxGets == 3

\* value.toLowerCase()
ToLowerString(value) == [k \in 1..Len(value) |-> ToLowerCase(value[k])]

\* parseBoolean(value, defaultValue)
parseBoolean(value, defaultValue) ==
    IF value = {} THEN defaultValue
    ELSE LET v == CHOOSE x \in value : TRUE
         IN  ToLowerString(v) = << "t", "r", "u", "e" >> \/ v = << "1" >>

\* maxConcurrency: parseNumber(process.env.SSH_MAX_CONCURRENCY, 10)
DefaultMaxConcurrency == 10

\* join(home, ".ssh", name)
DotSshPath(name) == HomeDir \o << "/", ".", "s", "s", "h", "/" >> \o name

\* loadConfig(), given process.env
loadConfig(env) ==
    [sshConfigPath |-> OrElse(env.SSH_CONFIG_PATH, DotSshPath(<< "c", "o", "n", "f", "i", "g" >>)),
     sshKnownHostsPath |-> OrElse(env.SSH_KNOWN_HOSTS_PATH, DotSshPath(<< "k", "n", "o", "w", "n", "_", "h", "o", "s", "t", "s" >>)),
     timeout |-> parseNumber(env.SSH_TIMEOUT, ConfigDefaultTimeout),
     strictHostKeyChecking |-> parseBoolean(env.SSH_STRICT_HOST_KEY, FALSE),
     maxConcurrency |-> parseNumber(env.SSH_MAX_CONCURRENCY, DefaultMaxConcurrency)]

\* a mutant of getConfig: the environment is read by every call
getConfig_Reload == loadConfig(environ)

\* getConfig(): if (!_config) _config = loadConfig(); return _config
getConfig ==
    IF globalConfig = {} THEN loadConfig(environ) ELSE CHOOSE c \in globalConfig : TRUE

\* the values of the environment variables: unset and set
EnvValues ==
    [SSH_CONFIG_PATH |-> {{}, {<< "a", "l", "t" >>}},
     SSH_KNOWN_HOSTS_PATH |-> {{}},
     SSH_TIMEOUT |-> EnvSshTimeouts,
     SSH_STRICT_HOST_KEY |-> {{}, {<< "T", "r", "u", "e" >>}, {<< "0" >>}},
     SSH_MAX_CONCURRENCY |-> {{}, {<< "3" >>}}]

InitEnv ==
    /\ IdleRun
    /\ IdlePlan
    /\ IdleConn
    /\ IdleRes
    /\ IdleEv
    /\ IdleSan
    /\ IdleCache
    /\ IdleAgent
    /\ IdleStream
    /\ environ \in [SSH_CONFIG_PATH : EnvValues.SSH_CONFIG_PATH,
                     SSH_KNOWN_HOSTS_PATH : EnvValues.SSH_KNOWN_HOSTS_PATH,
                     SSH_TIMEOUT : EnvValues.SSH_TIMEOUT,
                     SSH_STRICT_HOST_KEY : EnvValues.SSH_STRICT_HOST_KEY,
                     SSH_MAX_CONCURRENCY : EnvValues.SSH_MAX_CONCURRENCY]
    /\ globalConfig = {}
    /\ returnedConfig = {}
    /\ gets = 0

notCfg == << coreVars, resVars, cacheVars, agentVars, streamVars >>

\* a call of getConfig()
GetConfig ==
    /\ gets < MaxGets
    /\ gets' = gets + 1
    /\ globalConfig' = {getConfig}
    /\ returnedConfig' = {getConfig}
    /\ UNCHANGED << environ, notCfg >>

\* resetConfig()
ResetConfig ==
    /\ globalConfig # {}
    /\ globalConfig' = {}
    /\ UNCHANGED << environ, returnedConfig, gets, notCfg >>

\* an environment variable is set or deleted
SetEnv ==
    /\ \E name \in DOMAIN EnvValues : \E value \in EnvValues[name] :
           /\ environ[name] # value
           /\ environ' = [environ EXCEPT ![name] = value]
    /\ UNCHANGED << globalConfig, returnedConfig, gets, notCfg >>

NextEnv ==
    \/ GetConfig
    \/ ResetConfig
    \/ SetEnv

(***************************************************************************)
(* The agent socket (ssh/agent.ts)                                         *)
(***************************************************************************)

\* "\\.\pipe\openssh-ssh-agent", written with "/" for the backslashes
OpenSSHPipe == << "/", "/", ".", "/", "p", "i", "p", "e", "/", "o", "p", "e", "n", "s", "s", "h", "-", "s", "s", "h", "-", "a", "g", "e", "n", "t" >>

\* `${process.env.HOME}/Library/Group Containers/2BUA8C4S2C.com.1password/t/agent.sock`,
\* with the directory names shortened
MacOnePasswordSocket == HomeDir \o << "/", "L", "i", "b", "r", "a", "r", "y", "/", "1", "p", "a", "s", "s", "w", "o", "r", "d", "/", "a", "g", "e", "n", "t", ".", "s", "o", "c", "k" >>

\* `${process.env.HOME}/.1password/agent.sock`
LinuxOnePasswordSocket == HomeDir \o << "/", ".", "1", "p", "a", "s", "s", "w", "o", "r", "d", "/", "a", "g", "e", "n", "t", ".", "s", "o", "c", "k" >>

\* getSSHAgentSocket(), {} when undefined
getSSHAgentSocket ==
    IF Truthy(envAuthSock) THEN envAuthSock
    ELSE IF osPlatform = "win32"
         THEN IF Truthy(envOpAuthSock) THEN envOpAuthSock ELSE {OpenSSHPipe}
    ELSE IF osPlatform = "darwin" /\ MacOnePasswordSocket \in existingPaths
         THEN {MacOnePasswordSocket}
    ELSE IF osPlatform = "linux" /\ LinuxOnePasswordSocket \in existingPaths
         THEN {LinuxOnePasswordSocket}
    ELSE {}

\* isAgentAvailable()
isAgentAvailable ==
    IF ~Truthy(getSSHAgentSocket) THEN FALSE
    ELSE IF osPlatform = "win32" THEN TRUE
    ELSE \A socket \in getSSHAgentSocket : socket \in existingPaths

\* socket paths of the environment variables: "s" and "o"
EnvSocket == << "s" >>
OpEnvSocket == << "o" >>

\* platform()
Platforms == {"win32", "darwin", "linux", "freebsd"}

\* a connection attempt on any platform, the agent socket being what
\* getSSHAgentSocket() returns
InitAgent ==
    /\ IdleRun
    /\ IdlePlan
    /\ IdleRes
    /\ IdleEv
    /\ IdleSan
    /\ IdleCache
    /\ IdleCfg
    /\ IdleStream
    /\ envAuthSock \in {{}, {<< >>}, {EnvSocket}}
    /\ envOpAuthSock \in {{}, {OpEnvSocket}}
    /\ osPlatform \in Platforms
    /\ existingPaths \in SUBSET {EnvSocket, OpenSSHPipe, MacOnePasswordSocket,
                                LinuxOnePasswordSocket}
    /\ agentSocket = getSSHAgentSocket
    /\ envSshTimeout = {}
    /\ strictHostKeyChecking = FALSE
    /\ knownHostsFile = [state |-> "missing", lines |-> << >>]
    /\ hostRec \in [hostname : {<< "h" >>}, port : {22}, user : {<< "u" >>},
                    password : {{}, {<< "p" >>}}, identityFile : {{}}]
    /\ timeoutArg = {}
    /\ identityFs = "missing"
    /\ connectConfig = {}
    /\ knownHostsReads = 0
    /\ presentedKey = {}
    /\ verdict = {}
    /\ cpc = "start"

NextAgent == CreateConnectConfig

(***************************************************************************)
(* The output of a command (executeCommand, ssh/client.ts)                 *)
(***************************************************************************)

\* the most data events of one command
MaxChunks == 3

\* the bytes of a two-byte UTF-8 character and the character they encode
LeadByte == "C3"
ContinuationByte == "A9"
TwoByteChar == "e-acute"

\* U+FFFD, what the decoder puts for a byte sequence that is not a character
ReplacementChar == "U+FFFD"

\* Buffer.prototype.toString(): the UTF-8 decoding of the bytes of one chunk
RECURSIVE toString(_)
toString(data) ==
    IF Len(data) = 0 THEN << >>
    ELSE IF data[1] = LeadByte
    THEN IF Len(data) >= 2 /\ data[2] = ContinuationByte
         THEN << TwoByteChar >> \o toString(SubSeq(data, 3, Len(data)))
         ELSE << ReplacementChar >> \o toString(Tail(data))
    ELSE IF data[1] = ContinuationByte
    THEN << ReplacementChar >> \o toString(Tail(data))
    ELSE << data[1] >> \o toString(Tail(data))

\* String.prototype.trim(): white space and line terminators go from both ends
RECURSIVE StringTrimStart(_)
StringTrimStart(s) ==
    IF Len(s) > 0 /\ s[1] \in RegexSpace THEN StringTrimStart(Tail(s)) ELSE s

RECURSIVE StringTrimEnd(_)
StringTrimEnd(s) ==
    IF Len(s) > 0 /\ s[Len(s)] \in RegexSpace
    THEN StringTrimEnd(SubSeq(s, 1, Len(s) - 1))
    ELSE s

StringTrim(s) == StringTrimEnd(StringTrimStart(s))

\* a mutant of AppendChunk: the buffer keeps the last chunk only
AppendChunk_Replace(buf, data) == toString(data)

\* a mutant of AppendChunk: the chunk goes in front of the buffer
AppendChunk_Prepend(buf, data) == toString(data) \o buf

\* stdout += data.toString()
AppendChunk(buf, data) == buf \o toString(data)

\* the chunks a stream delivers: "a", " ", "\n" "b", a whole two-byte character,
\* and its first and its second byte alone
ChunkData ==
    {<< "a" >>, << " " >>, << "\n", "b" >>, << LeadByte, ContinuationByte >>,
     << LeadByte >>, << ContinuationByte >>}

notStream == << coreVars, resVars, cacheVars, cfgVars, agentVars >>

\* the session is connected and client.exec has called back with the stream:
\* the three listeners are registered, both buffers are empty
InitStream ==
    /\ IdleRun
    /\ IdlePlan
    /\ IdleConn
    /\ IdleRes
    /\ IdleEv
    /\ IdleSan
    /\ IdleCache
    /\ IdleCfg
    /\ IdleAgent
    /\ stdoutBuf = << >>
    /\ stderrBuf = << >>
    /\ chunks = << >>
    /\ execResult = {}
    /\ clientEnded = 0

\* stream.on("data"): close is the last event of a channel, so data arrives
\* while the result is not produced
StdoutData(data) ==
    /\ execResult = {}
    /\ Len(chunks) < MaxChunks
    /\ stdoutBuf' = AppendChunk(stdoutBuf, data)
    /\ chunks' = Append(chunks, [fd |-> "stdout", data |-> data])
    /\ UNCHANGED << stderrBuf, execResult, clientEnded, notStream >>

\* stream.stderr.on("data")
StderrData(data) ==
    /\ execResult = {}
    /\ Len(chunks) < MaxChunks
    /\ stderrBuf' = AppendChunk(stderrBuf, data)
    /\ chunks' = Append(chunks, [fd |-> "stderr", data |-> data])
    /\ UNCHANGED << stdoutBuf, execResult, clientEnded, notStream >>

\* stream.on("close"): client?.end(), then the promise resolves
OnStreamClose(code) ==
    /\ execResult = {}
    /\ clientEnded' = clientEnded + 1
    /\ execResult' = {[success |-> code = {0},
                       stdout |-> StringTrim(stdoutBuf),
                       stderr |-> StringTrim(stderrBuf),
                       exitCode |-> code]}
    /\ chunks' = Append(chunks, [fd |-> "close", data |-> << >>])
    /\ UNCHANGED << stdoutBuf, stderrBuf, notStream >>

NextStream ==
    \/ \E data \in ChunkData : StdoutData(data)
    \/ \E data \in ChunkData : StderrData(data)
    \/ \E code \in CloseCodes : OnStreamClose(code)

vars == << runVars, planVars, connVars, resVars, evVars, sanVars, moreVars >>

Init == InitRun

Next == NextRun

Spec == Init /\ [][Next]_vars

SpecPlan == InitPlan /\ [][NextPlan]_vars

SpecVerify == InitVerify /\ [][NextConn]_vars

SpecConfig == InitConfig /\ [][NextConn]_vars

SpecResolve == InitResolve /\ [][NextResolve]_vars

SpecConnect == InitConnect /\ [][NextConnect]_vars

SpecSanitize == InitSanitize /\ [][NextSanitize]_vars

SpecCache == InitCache /\ [][NextCache]_vars

SpecEnv == InitEnv /\ [][NextEnv]_vars

SpecAgent == InitAgent /\ [][NextAgent]_vars

SpecStream == InitStream /\ [][NextStream]_vars

\* runWithConcurrency over workers that are plain promises
InitLive == InitRun /\ op = "task"

NextLive ==
    \/ Call
    \/ ResumeRace
    \/ ResumeAll
    \/ \E j \in 1..N : TaskSettles(j)
    \/ \E j \in 1..N : ThenFinally(j)

\* the event loop runs the call and every continuation and callback that is
\* ready: the jobs of settled promises are queued and the queue is drained
SpecLive ==
    /\ InitLive
    /\ [][NextLive]_vars
    /\ WF_vars(Call)
    /\ WF_vars(ResumeRace)
    /\ WF_vars(ResumeAll)
    /\ \A j \in 1..MaxHosts : WF_vars(j \in 1..N /\ ThenFinally(j))

(***************************************************************************)
(* Properties of the batch operations                                      *)
(***************************************************************************)

\* the worker invocations that have been started and have not settled
InFlight == {j \in 1..N : w[j].st \in {"running", "connecting", "connected"}}

NoWorkerRejected == \A j \in 1..N : ~w[j].rejected

\* C1: with a limit of at least 1 and workers that never reject, the number of
\* worker invocations started and not yet settled never exceeds the limit.
C1_InFlightAtMostLimit ==
    (maxConcurrency >= 1 /\ NoWorkerRejected)
        => Cardinality(InFlight) <= maxConcurrency

\* the window is full, the runner waits and items are still queued
C1_Witness ==
    /\ maxConcurrency >= 2
    /\ NoWorkerRejected
    /\ Cardinality(InFlight) = maxConcurrency
    /\ pc = "race"
    /\ i <= N

\* the result of item j was produced by the worker of item j, for the host of item j
OwnResult(j) ==
    /\ results[j] # {}
    /\ results[j] = w[j].res
    /\ \A r \in results[j] : r.host = hosts[j]

\* C2: executeBatch never rejects, no executeCommand rejects, and when the batch
\* returns, the list has one result per host list entry, each the result of that
\* host's own command, whatever happened to the other hosts.
C2_OneResultPerHost ==
    op = "execute" =>
        /\ pc # "rejected"
        /\ NoWorkerRejected
        /\ pc = "returned" => \A j \in 1..N : OwnResult(j)

\* a batch over three hosts returned: the first failed to connect, the second
\* failed at exec, the third ran the command
C2_Witness ==
    /\ op = "execute"
    /\ pc = "returned"
    /\ N = 3
    /\ \E r \in results[1] : r.error = {"connect failed"}
    /\ \E r \in results[2] : r.error = {"exec failed"}
    /\ \E r \in results[3] : r.exitCode = {0} /\ r.success

\* C3: in a download with the {host} placeholder, a host whose substituted path
\* is rejected gets a failure result of its own, and transfer() still returns the
\* list with every other host's own result.
C3_PathRejectionFailsOneHost ==
    (/\ op = "download"
     /\ Includes(localPath, HostPlaceholder)
     /\ pc \in {"returned", "rejected"})
        => /\ pc = "returned"
           /\ \A j \in 1..N :
                IF DownloadPathThrows(hosts, localPath, hosts[j])
                THEN \E r \in results[j] : r.host = hosts[j] /\ ~r.success /\ r.error # {}
                ELSE OwnResult(j)

\* C4: when a worker has returned its result, the session connect() handed to it
\* has been ended.
C4_SessionClosedOnReturn ==
    \A j \in 1..N : w[j].st \in {"settled", "done"} => sess[j] # "open"

\* C5: for workers that never reject, runWithConcurrency returns an array with
\* one entry per item, the entry at index j being the worker's result for item j.
C5_IndexStable ==
    (pc = "returned" /\ NoWorkerRejected)
        => /\ DOMAIN results = 1..N
           /\ \A j \in 1..N : OwnResult(j)

\* a call with a window of at least two returned two results that differ
C5_Witness ==
    /\ pc = "returned"
    /\ NoWorkerRejected
    /\ maxConcurrency >= 2
    /\ N >= 2
    /\ results[1] # results[2]
    /\ C5_IndexStable

(***************************************************************************)
(* Properties of the path derivation                                       *)
(***************************************************************************)

\* C6: in one download, the local paths derived for two entries of the host list
\* that name different hosts are different, in the placeholder branch and in the
\* suffix branch.
C6_CollisionFree ==
    \A j \in 1..Len(planned), k \in 1..Len(planned) :
        (/\ j # k
         /\ planHosts[j] # planHosts[k]
         /\ ~planned[j].threw
         /\ ~planned[k].threw)
            => planned[j].path # planned[k].path

(***************************************************************************)
(* Properties of a connection attempt                                      *)
(***************************************************************************)

\* a line of known_hosts that is not blank, not a comment and has three tokens
WellFormedLine(line) ==
    /\ Len(Trim(line)) > 0
    /\ Trim(line)[1] # "#"
    /\ Len(SplitWs(Trim(line))) >= 3

\* does the line list the host token c among its comma-separated hosts?
LineNames(line, c) ==
    \E k \in 1..Len(SplitComma(SplitWs(Trim(line))[1])) :
        SplitComma(SplitWs(Trim(line))[1])[k] = c

\* the key materials the known_hosts file stores under the lookup key c
StoredMaterials(c) ==
    IF knownHostsFile.state # "ok" THEN {}
    ELSE {SplitWs(Trim(knownHostsFile.lines[n]))[3] :
            n \in {m \in 1..Len(knownHostsFile.lines) :
                     /\ WellFormedLine(knownHostsFile.lines[m])
                     /\ LineNames(knownHostsFile.lines[m], c)}}

\* the candidate lookup keys: hostname and, when the port is not 22, [hostname]:port
Candidates ==
    {hostRec.hostname}
    \cup (IF hostRec.port # 22
          THEN {BracketVariant(hostRec.hostname, hostRec.port)}
          ELSE {})

\* the Map with every key algorithm replaced by the same one
TypeErased(knownHosts) ==
    [c \in DOMAIN knownHosts |->
        [n \in 1..Len(knownHosts[c]) |->
            [keyType |-> << >>, keyData |-> knownHosts[c][n].keyData]]]

\* C7: the verifier returns true only when the base64 form of the presented key is
\* a key material stored under a candidate lookup key, false when no candidate has
\* an entry, and the stored key algorithms do not change its answer.
C7_TrustsOnlyStoredKey ==
    \A v \in verdict : \A key \in presentedKey :
        /\ v => \E c \in Candidates : Base64(key) \in StoredMaterials(c)
        /\ (\A c \in Candidates : StoredMaterials(c) = {}) => ~v
        /\ v = VerifyFrom(hostVariants(hostRec.hostname, hostRec.port),
                          TypeErased(parseKnownHosts(knownHostsFile)),
                          Base64(key))

\* a host on port 2222 without an entry under its bare name is trusted through
\* its [hostname]:2222 entry
C7_Witness ==
    /\ verdict = {TRUE}
    /\ hostRec.port = 2222
    /\ StoredMaterials(hostRec.hostname) = {}
    /\ \A key \in presentedKey :
         Base64(key) \in StoredMaterials(BracketVariant(hostRec.hostname, hostRec.port))

\* C8: when entries exist under the bare hostname and none of them matches the
\* presented key, the verdict is untrusted, whatever is stored under
\* [hostname]:port.
C8_FirstCandidateDecides ==
    \A v \in verdict : \A key \in presentedKey :
        (/\ StoredMaterials(hostRec.hostname) # {}
         /\ Base64(key) \notin StoredMaterials(hostRec.hostname))
            => ~v

\* C9: the connection configuration has a host verifier exactly when strict mode
\* is on, whichever credential mechanism was chosen, and without strict mode the
\* known_hosts file is never read.
C9_VerifierIffStrict ==
    /\ \A c \in connectConfig : (c.hostVerifier # {}) <=> strictHostKeyChecking
    /\ ~strictHostKeyChecking => knownHostsReads = 0

\* strict mode with password authentication: the verifier is installed
C9_Witness ==
    /\ strictHostKeyChecking
    /\ knownHostsReads = 1
    /\ \E c \in connectConfig : c.password # {} /\ c.hostVerifier # {}

\* C10: when the effective connection carries a password, the configuration holds
\* that password and neither an agent socket nor private key material.
C10_PasswordOnly ==
    \A c \in connectConfig :
        hostRec.password # {}
            => /\ c.password = hostRec.password
               /\ c.agent = {}
               /\ c.privateKey = {}

\* C11: the identity file is read into the configuration only when no agent was
\* found: a configuration never carries both an agent socket and private key
\* material.
C11_FirstViableMechanism ==
    \A c \in connectConfig :
        /\ ~(c.agent # {} /\ c.privateKey # {})
        /\ c.privateKey # {} => ~Truthy(agentSocket)

\* C19: the readiness timeout of the configuration is the per-call timeout when
\* one is given, and otherwise the configured connection timeout (SSH_TIMEOUT,
\* 30000 by default).
C19_ReadyTimeout ==
    \A c \in connectConfig :
        c.readyTimeout = IF timeoutArg # {}
                         THEN CHOOSE t \in timeoutArg : TRUE
                         ELSE ConfigTimeout

(***************************************************************************)
(* Properties of host resolution and override merging                      *)
(***************************************************************************)

\* the list the last parseSSHConfig call returned
AliasList == IF cachedHosts = {} THEN << >> ELSE CHOOSE h \in cachedHosts : TRUE

\* the alias names of that list
AliasNames == {AliasList[k].name : k \in 1..Len(AliasList)}

\* the names without "*" and "?" that the Host sections of the alias file declare
FileAliasNames ==
    IF aliasFile.state # "ok" THEN {}
    ELSE {n \in UNION {{aliasFile.sections[k].value[m] :
                          m \in 1..Len(aliasFile.sections[k].value)} :
                       k \in {j \in 1..Len(aliasFile.sections) :
                                aliasFile.sections[j].param = "Host"}} :
            \A c \in 1..Len(n) : n[c] \notin {"*", "?"}}

\* the record of an identifier taken literally as a hostname
IsDirectRecord(r) ==
    /\ r.name = identifier
    /\ r.hostname = identifier
    /\ r.port = {22}
    /\ Len(r.user) > 0

\* C12: every override field that is present replaces the field of the record,
\* the empty username and port 0 included, every absent one leaves it untouched,
\* and without an overrides object the record is returned unchanged.
C12_PresentOverrideReplaces ==
    \A r \in resolved : \A e \in effective :
        IF directOptions = {} THEN e = r
        ELSE \A o \in directOptions :
               /\ e.name = r.name
               /\ e.hostname = r.hostname
               /\ e.user = (IF o.username # {} THEN CHOOSE v \in o.username : TRUE ELSE r.user)
               /\ e.port = (IF o.port # {} THEN o.port ELSE r.port)
               /\ e.identityFile =
                      (IF o.privateKeyPath # {} THEN o.privateKeyPath ELSE r.identityFile)
               /\ e.password = (IF o.password # {} THEN o.password ELSE r.password)

\* C13: an identifier that is not the exact name of an alias of the parsed alias
\* store resolves to name = hostname = identifier, port 22 and a non-empty user,
\* and one that is the name of an alias resolves to the record parsed for that
\* alias; on the first call the aliases are the names the file declares.
C13_ResolveExactName ==
    \A r \in resolved :
        /\ identifier \notin AliasNames => IsDirectRecord(r)
        /\ identifier \in AliasNames =>
               \E k \in 1..Len(AliasList) :
                   AliasList[k].name = identifier /\ r = AliasList[k]
        /\ calls = 0 => AliasNames = FileAliasNames

\* the identifier is the HostName of an alias and not its name: it resolves as a
\* direct hostname
C13_Witness ==
    /\ rpc = "resolved"
    /\ identifier \notin AliasNames
    /\ \E k \in 1..Len(AliasList) : AliasList[k].hostname = identifier
    /\ \A r \in resolved : IsDirectRecord(r)

\* resolution has degraded to the empty alias list and the direct record
Degraded(r) == AliasList = << >> /\ IsDirectRecord(r)

\* C14 as claimed: resolution never throws, and whenever the alias file is missing,
\* unreadable or malformed the alias list is empty and the record is the direct one.
C14_DegradesToEmpty ==
    /\ rpc # "threw"
    /\ \A r \in resolved :
           aliasFile.state \in {"missing", "unreadable", "malformed"} => Degraded(r)

\* C14 amended: resolution never throws; a missing alias file, and an unreadable
\* or malformed one whose modification time is not the cached one, gives the empty
\* alias list and the direct record.
C14_DegradesWhenRead ==
    /\ rpc # "threw"
    /\ \A r \in resolved :
           /\ aliasFile.state = "missing" => Degraded(r)
           /\ (/\ aliasFile.state \in {"unreadable", "malformed"}
               /\ cachedMtime # {aliasFile.mtime})
                  => Degraded(r)

\* a malformed alias file was read by this call
C14_Witness ==
    /\ rpc = "resolved"
    /\ aliasFile.state = "malformed"
    /\ cachedMtime = {}
    /\ \A r \in resolved : Degraded(r)

(***************************************************************************)
(* Further properties of the batch operations                              *)
(***************************************************************************)

\* the results executeCommand has produced so far
ExecuteResults ==
    IF op # "execute" THEN {}
    ELSE UNION {w[j].res : j \in 1..N}

\* C15: an ExecuteResult has success = true exactly when exitCode = 0, and it is
\* either a completion (exitCode, stdout and stderr, no error) or a failure (an
\* error and no exitCode, stdout or stderr).
C15_ResultShape ==
    \A r \in ExecuteResults :
        /\ r.success <=> r.exitCode = {0}
        /\ \/ r.exitCode # {} /\ r.stdout # {} /\ r.stderr # {} /\ r.error = {}
           \/ r.exitCode = {} /\ r.stdout = {} /\ r.stderr = {} /\ r.error # {}

\* localPath with the suffix inserted between its base name and its extension
WithSuffix(path, suffix) ==
    SubSeq(path, 1, Len(path) - Len(extname(path))) \o suffix \o extname(path)

\* C16: the local path derived for a host is localPath with every {host} replaced
\* by the sanitized host when localPath has the placeholder, else localPath with
\* _<sanitizedHost> inserted between base name and extension when several hosts
\* are targeted (./o with host w gives ./o_w), else localPath unchanged.
C16_DerivationPriority ==
    \A j \in 1..Len(planned) :
        ~planned[j].threw =>
            planned[j].path =
                IF Includes(planLocalPath, HostPlaceholder)
                THEN ReplaceAll(planLocalPath, HostPlaceholder, sanitizeHostName(planHosts[j]))
                ELSE IF Len(planHosts) > 1
                THEN WithSuffix(planLocalPath, << "_" >> \o sanitizeHostName(planHosts[j]))
                ELSE planLocalPath

\* the hosts of a download whose substituted local path is rejected
RejectedHosts ==
    IF op # "download" THEN {}
    ELSE {k \in 1..N : DownloadPathThrows(hosts, localPath, hosts[k])}

\* C17: for a host whose substituted local path is rejected, no session is opened,
\* no worker runs, so no file is written, and the directory of the rejected path
\* is not created.
C17_RejectedPathNoEffect ==
    \A k \in RejectedHosts :
        /\ sess[k] = "none"
        /\ w[k].st = "idle"
        /\ w[k].res = {}
        /\ dirname(resolveLocalPath(localPath, hosts[k])) \notin localDirs

\* the call reached the rejected host after it had started another one
C17_Witness ==
    /\ pc = "rejected"
    /\ i \in RejectedHosts
    /\ sess[i] = "none"
    /\ \E j \in 1..N : sess[j] # "none"
    /\ localDirs # {}

\* the sessions that are connecting or connected and not yet ended
OpenSessions == {j \in 1..N : sess[j] \in {"connecting", "open"}}

\* C18: while executeBatch or transfer runs, at most maxConcurrency sessions are
\* open, for maxConcurrency >= 1.
C18_OpenSessionsAtMostLimit ==
    (op \in {"execute", "upload", "download"} /\ maxConcurrency >= 1)
        => Cardinality(OpenSessions) <= maxConcurrency

\* C20: with limit 1 an item is started only after the worker of the previous item
\* has settled, a rejection leaves the later items unstarted, and the call returns
\* the value of the worker for each item, as running them one after another does.
C20_LimitOneIsSequential ==
    maxConcurrency = 1 =>
        /\ \A j \in 2..N : w[j].st # "idle" => w[j - 1].st \in {"settled", "done"}
        /\ \A j \in 1..N : (w[j].st \in {"settled", "done"} /\ w[j].rejected) =>
               \A k \in (j + 1)..N : w[k].st = "idle"
        /\ (pc = "returned" /\ op = "task") =>
               \A j \in 1..N : results[j] = {TaskValue(j)}

\* a call with limit 1 over several items has returned
C20_Witness ==
    /\ maxConcurrency = 1
    /\ op = "task"
    /\ N >= 2
    /\ pc = "returned"
    /\ \A j \in 1..N : results[j] = {TaskValue(j)}

(***************************************************************************)
(* Degenerate limits, the full window and the upward boundary              *)
(***************************************************************************)

\* the items whose worker has been invoked
Started == {j \in 1..N : w[j].st # "idle"}

\* C21: with a limit <= 0 at most one worker is in flight and an item is started
\* only after the promise of every earlier item has left the executing set; with
\* a limit above the item count the call starts every item before it first
\* waits; and a call whose workers did not reject returns with a result at every
\* index and no worker left.
C21_DegenerateLimits ==
    /\ maxConcurrency <= 0 =>
          /\ Cardinality(InFlight) <= 1
          /\ \A j \in Started : \A k \in 1..(j - 1) : w[k].st = "done"
    /\ (maxConcurrency > N /\ pc \notin {"idle", "rejected"}) => Started = 1..N
    /\ (pc = "returned" /\ NoWorkerRejected) =>
          /\ \A j \in 1..N : results[j] # {} /\ w[j].st = "done"
          /\ executing = {}

\* a call with a negative limit over several items returned its full list
C21_Witness ==
    /\ maxConcurrency < 0
    /\ N >= 2
    /\ pc = "returned"
    /\ \A j \in 1..N : results[j] # {}

\* C22: while the runner waits in Promise.race and no awaited worker has settled,
\* at least limit workers are in flight; and when the race resumes without a
\* rejection while items are queued, the next item is started in the same step,
\* before the runner waits again.
C22_WindowKeptFull ==
    /\ []((/\ pc = "race"
           /\ raceWinner = 0
           /\ \A j \in executing : w[j].st # "settled")
             => Cardinality(InFlight) >= maxConcurrency)
    /\ [][(pc = "race" /\ raceWinner # 0 /\ raceWinner' = 0 /\ pc' # "rejected" /\ i <= N)
             => (i' > i /\ w'[i].st # "idle")]_vars

\* two awaited workers have settled and left the set before the runner resumed,
\* and an item is still queued
C22_Witness ==
    /\ pc = "race"
    /\ raceWinner # 0
    /\ i <= N
    /\ maxConcurrency >= 2
    /\ Cardinality({j \in awaited : w[j].st = "done"}) >= 2

\* C23: execute and transfer never reject: every failure, a local path-safety
\* rejection included, is a result of the returned list.
C23_NeverRejects ==
    op \in {"execute", "upload", "download"} => pc # "rejected"

(***************************************************************************)
(* Host records: ports, hostnames and wildcard names                       *)
(***************************************************************************)

\* the port of a record is an integer in 1..65535 and its hostname is not empty
WellFormedHost(r) ==
    /\ \E n \in r.port : n >= 1 /\ n <= 65535
    /\ Len(r.hostname) > 0

\* C25: every record of the parsed alias list, every record resolveHost returns
\* and every effective connection after the merge has a port in 1..65535 and a
\* non-empty hostname.
C25_PortAndHostnameValid ==
    /\ \A k \in 1..Len(AliasList) : WellFormedHost(AliasList[k])
    /\ \A r \in resolved : WellFormedHost(r)
    /\ \A e \in effective : WellFormedHost(e)

\* the host patterns with "*" or "?" that the Host sections of the alias file declare
FileWildcardNames ==
    IF aliasFile.state # "ok" THEN {}
    ELSE {n \in UNION {{aliasFile.sections[k].value[m] :
                          m \in 1..Len(aliasFile.sections[k].value)} :
                       k \in {j \in 1..Len(aliasFile.sections) :
                                aliasFile.sections[j].param = "Host"}} :
            \E c \in 1..Len(n) : n[c] \in {"*", "?"}}

\* C27: no entry of the list parseSSHConfig returns has a name with "*" or "?".
C27_NoWildcardAlias ==
    \A k \in 1..Len(AliasList) :
        \A c \in 1..Len(AliasList[k].name) : AliasList[k].name[c] \notin {"*", "?"}

\* a file that declares a pattern with "?" next to a plain alias was parsed: the
\* plain alias is listed
C27_Witness ==
    /\ \E n \in FileWildcardNames : Includes(n, << "?" >>)
    /\ Len(AliasList) > 0
    /\ cachedMtime = {aliasFile.mtime}
    /\ rpc = "resolved"

(***************************************************************************)
(* Loading the trust store                                                 *)
(***************************************************************************)

\* the comma-separated host tokens of a well-formed line
LineTokens(line) == SplitComma(SplitWs(Trim(line))[1])

\* the places (line, position) where a well-formed line of the file names token c
Mentions(c) ==
    IF knownHostsFile.state # "ok" THEN {}
    ELSE UNION {{<< n, k >> : k \in {m \in 1..Len(LineTokens(knownHostsFile.lines[n])) :
                                      LineTokens(knownHostsFile.lines[n])[m] = c}} :
                n \in {m \in 1..Len(knownHostsFile.lines) :
                         WellFormedLine(knownHostsFile.lines[m])}}

\* the host tokens the well-formed lines of the file name
FileTokens ==
    IF knownHostsFile.state # "ok" THEN {}
    ELSE UNION {{LineTokens(knownHostsFile.lines[n])[k] :
                   k \in 1..Len(LineTokens(knownHostsFile.lines[n]))} :
                n \in {m \in 1..Len(knownHostsFile.lines) :
                         WellFormedLine(knownHostsFile.lines[m])}}

\* the trust stores loaded for the connection configuration
LoadedStores == {v.knownHosts : v \in UNION {c.hostVerifier : c \in connectConfig}}

\* C26: in strict mode the configuration is always built, with a store that is
\* empty for a missing or unreadable file and otherwise has exactly the host
\* tokens of the well-formed lines, and under each token one key per mention, with
\* the key materials of the lines that name it; blank lines, comments and lines of
\* fewer than three tokens add nothing.
C26_StoreLoadsEveryWellFormedLine ==
    /\ (strictHostKeyChecking /\ cpc # "start") =>
          (cpc # "threw" /\ LoadedStores # {})
    /\ \A store \in LoadedStores :
          /\ knownHostsFile.state # "ok" => store = EmptyMap
          /\ DOMAIN store = FileTokens
          /\ \A c \in DOMAIN store :
                /\ Len(store[c]) = Cardinality(Mentions(c))
                /\ {store[c][n].keyData : n \in 1..Len(store[c])} = StoredMaterials(c)

\* a store with two keys under one host token, loaded from a two-line file
C26_Witness ==
    /\ cpc = "configured"
    /\ \E store \in LoadedStores : \E c \in DOMAIN store :
          /\ Len(store[c]) = 2
          /\ Cardinality(StoredMaterials(c)) = 2

(***************************************************************************)
(* Termination of runWithConcurrency                                       *)
(***************************************************************************)

\* the worker of item j has been invoked and its promise is pending
Pending(j) == j \in 1..N /\ w[j].st = "running"

\* C30: if no worker rejects and every worker that was invoked settles, the call
\* returns; a call that returned left every item done and no worker in flight;
\* and a worker is only ever invoked for an item that was never started.
C30_ReturnsWithAllDone ==
    /\ ([]NoWorkerRejected /\ \A j \in 1..MaxHosts : []<>(~Pending(j)))
          => <>(pc = "returned")
    /\ [](pc = "returned" =>
            /\ \A j \in 1..N : w[j].st = "done"
            /\ InFlight = {}
            /\ executing = {})
    /\ [][\A j \in 1..N : (w[j].st # "running" /\ w'[j].st = "running") => w[j].st = "idle"]_vars

\* a call over three items with a window of two returned
C30_Witness ==
    /\ op = "task"
    /\ pc = "returned"
    /\ NoWorkerRejected
    /\ N >= 3
    /\ maxConcurrency = 2
    /\ \A j \in 1..N : w[j].st = "done"

(***************************************************************************)
(* connect(): the first event decides                                      *)
(***************************************************************************)

\* the outcome the first event asks for
OutcomeOf(event) ==
    IF event.name = "ready" THEN [state |-> "resolved", value |-> {"client"}]
    ELSE IF event.name = "error" THEN [state |-> "rejected", value |-> event.err]
    ELSE [state |-> "rejected", value |-> {ClosedUnexpectedly}]

\* C28: once the client has emitted an event, the promise of connect() is settled:
\* resolved with the client when the first event is ready, rejected with the
\* transport's error when it is error, and rejected with "Connection closed
\* unexpectedly" when it is close.
C28_FirstEventSettles ==
    Len(emitted) >= 1 =>
        /\ promise.state # "pending"
        /\ promise = OutcomeOf(emitted[1])

\* close came first, before any ready
C28_Witness ==
    /\ Len(emitted) >= 1
    /\ emitted[1].name = "close"
    /\ promise = [state |-> "rejected", value |-> {ClosedUnexpectedly}]

\* C29: the handlers of connect() call client.end() at most once, exactly when
\* the first event is error or close, never when ready came first; and every
\* event after the first leaves the promise, the flag and the number of end()
\* calls as they are.
C29_LaterEventsChangeNothing ==
    /\ [](/\ endCalls <= 1
          /\ Len(emitted) >= 1 =>
                (endCalls = IF emitted[1].name = "ready" THEN 0 ELSE 1))
    /\ [][Len(emitted) >= 1 =>
             (promise' = promise /\ settled' = settled /\ endCalls' = endCalls)]_vars

\* ready came first, an error and a close followed, and connect() never ended
\* the client it handed over
C29_Witness ==
    /\ Len(emitted) >= 3
    /\ emitted[1].name = "ready"
    /\ \E k \in 2..Len(emitted) : emitted[k].name = "error"
    /\ \E k \in 2..Len(emitted) : emitted[k].name = "close"
    /\ endCalls = 0
    /\ promise.state = "resolved"

(***************************************************************************)
(* The error text of a result                                              *)
(***************************************************************************)

\* C24: the error field of a result never contains the password supplied in the
\* overrides, whatever the message of the failure.
C24_NoPasswordInError ==
    \A e \in errorText : ~Includes(e, suppliedPassword)

(***************************************************************************)
(* Rejecting workers                                                       *)
(***************************************************************************)

\* C31: a call that resolves had no rejecting worker and returns an array with
\* the result of its own item at every index.
C31_NoPartialResult ==
    pc = "returned" =>
        /\ NoWorkerRejected
        /\ \A j \in 1..N : results[j] # {} /\ results[j] = w[j].res

(***************************************************************************)
(* The parse cache                                                         *)
(***************************************************************************)

\* the cache holds a parse of the configured path with the file's current mtime
CacheMatches ==
    /\ cachedHosts # {}
    /\ cachedConfigPath = {sshConfigPath}
    /\ aliasFile.state # "missing"
    /\ cachedMtime = {aliasFile.mtime}

\* a step in which parseSSHConfig is called
IsParseCall == calls' = calls + 1

\* C32: a call serves the cached list exactly when the cache holds a list for the
\* configured path and the file exists with the cached modification time, and
\* then returns that list; otherwise it re-parses.  After a parse that failed or
\* found no file, and after clearSSHConfigCache, nothing is cached that a call
\* could serve.
C32_ServesCacheOnlyOnMatch ==
    /\ [][IsParseCall =>
            /\ (lastOutcome' = "hit") <=> CacheMatches
            /\ lastOutcome' = "hit" =>
                  (lastList' = cachedHosts /\ cachedHosts' = cachedHosts)]_vars
    /\ [](lastOutcome \in {"missing", "failed"} => cachedMtime = {})
    /\ [](lastOutcome = "cleared" => cachedHosts = {})

\* the second call found the cached path and modification time and was served
\* from the cache
C32_Witness ==
    /\ lastOutcome = "hit"
    /\ calls = 2
    /\ cachedConfigPath = {sshConfigPath}
    /\ cachedMtime = {aliasFile.mtime}
    /\ lastList = cachedHosts

\* the parse of the file's current content
CurrentParse ==
    IF aliasFile.state = "ok" THEN HostsFrom(aliasFile.sections, 1) ELSE << >>

\* C33: when a parse stores a modification time, the stored list is the parse of
\* the content the file has at that time, and a call served from the cache
\* returns the parse of the file's current content.
C33_CachedPairConsistent ==
    [][/\ (cachePhase = "parsed" /\ cachePhase' = "idle" /\ cachedMtime' # {})
            => cachedHosts' = {CurrentParse'}
       /\ (IsParseCall /\ lastOutcome' = "hit")
            => lastList' = {CurrentParse}]_vars

(***************************************************************************)
(* The configuration is loaded once                                        *)
(***************************************************************************)

\* a step in which getConfig is called
IsGet == gets' = gets + 1

\* C34: a getConfig call made while a configuration is held returns the held
\* values and keeps them, whatever the environment is now; a call made while
\* none is held returns the values loaded from the current environment and holds
\* them; a change of the environment leaves the held configuration alone; and
\* the held configuration only ever changes from or to none.
C34_ConfigFixedUntilReset ==
    [][/\ (IsGet /\ globalConfig # {}) =>
            (returnedConfig' = globalConfig /\ globalConfig' = globalConfig)
       /\ (IsGet /\ globalConfig = {}) =>
            (returnedConfig' = {loadConfig(environ)} /\ globalConfig' = returnedConfig')
       /\ environ' # environ => globalConfig' = globalConfig
       /\ globalConfig' # globalConfig => (globalConfig = {} \/ globalConfig' = {})]_vars

\* the environment has changed since the load and the last call still returned
\* the loaded values
C34_Witness ==
    /\ gets >= 2
    /\ returnedConfig = globalConfig
    /\ globalConfig # {}
    /\ globalConfig # {loadConfig(environ)}

(***************************************************************************)
(* The agent in the connection configuration                               *)
(***************************************************************************)

\* C39: without a password, the configuration names an agent only when the
\* socket of that agent exists, and an SSH_AUTH_SOCK that is set is the agent of
\* the configuration on every platform.
C39_AgentOnlyIfReachable ==
    \A c \in connectConfig :
        ~Truthy(hostRec.password) =>
            /\ \A socket \in c.agent : socket \in existingPaths
            /\ Truthy(envAuthSock) => c.agent = envAuthSock


\* C35: in a download, a host for which a session was opened has the parent
\* directory of its destination on disk (created before connecting when absent),
\* and a started host whose directory could not be created has a result with
\* success = false and an error, and no session.
C35_DirectoryBeforeSession ==
    op = "download" =>
        \A j \in 1..N :
            /\ sess[j] # "none" => dirname(TransferPath(j)) \in localDirs
            /\ (w[j].st # "idle" /\ ~mkdirWorks) =>
                   /\ sess[j] = "none"
                   /\ \E r \in w[j].res : ~r.success /\ r.error # {}

\* a download created the directory of one host and opened its session
C35_Witness ==
    /\ op = "download"
    /\ mkdirWorks
    /\ \E j \in 1..N : sess[j] = "open" /\ dirname(TransferPath(j)) \in localDirs

\* a download whose directory could not be created answered with a failure
C35_FailureSeen ==
    /\ op = "download"
    /\ ~mkdirWorks
    /\ \E j \in 1..N : w[j].st = "settled" /\ sess[j] = "none"


\* the path after the placeholder was replaced by the sanitized host
Substituted(j) ==
    ReplaceAll(planLocalPath, HostPlaceholder, sanitizeHostName(planHosts[j]))

\* the normalized path leaves the directory it is relative to: one of its
\* components is ".."
Escapes(p) ==
    LET segs == SplitSlash(normalize(p))
    IN  \E k \in 1..Len(segs) : segs[k] = DotDot

\* C36: a placeholder-substituted download path is rejected if and only if its
\* normalized form has a parent-directory component; a host with two consecutive
\* dots inside its name is not rejected.
C36_RejectedIffEscapes ==
    Includes(planLocalPath, HostPlaceholder) =>
        \A j \in 1..Len(planned) : planned[j].threw <=> Escapes(Substituted(j))

\* the one direction that holds: every substitution that escapes is rejected
C36_EscapeIsRejected ==
    Includes(planLocalPath, HostPlaceholder) =>
        \A j \in 1..Len(planned) : Escapes(Substituted(j)) => planned[j].threw

\* a substitution that escapes was rejected
C36_EscapeSeen ==
    /\ Includes(planLocalPath, HostPlaceholder)
    /\ \E j \in 1..Len(planned) : Escapes(Substituted(j)) /\ planned[j].threw

\* C37: in the automatic-suffix branch (no placeholder, more than one host) the
\* derived path lies in the directory of localPath for every host: the host
\* changes the file name only.
C37_SuffixKeepsDirectory ==
    (~Includes(planLocalPath, HostPlaceholder) /\ Len(planHosts) > 1) =>
        \A j \in 1..Len(planned) :
            /\ ~planned[j].threw
            /\ normalize(dirname(planned[j].path)) = normalize(dirname(planLocalPath))
            /\ Len(SplitSlash(planned[j].path)) = Len(SplitSlash(normalize(planLocalPath)))

\* the suffix branch derived the path of a host whose identifier holds a
\* separator, for a file in a named directory
C37_Witness ==
    /\ ~Includes(planLocalPath, HostPlaceholder)
    /\ Len(planHosts) > 1
    /\ dirname(planLocalPath) # << "." >>
    /\ \E j \in 1..Len(planned) :
           /\ Includes(planHosts[j], << "/" >>)
           /\ ~planned[j].threw

\* C38: for every host whose path was derived, sanitizeHostName gives a string
\* of the same length, made of safe characters only, that keeps each safe
\* character and has "_" in place of each other one; it is the identity on safe
\* identifiers and idempotent.
C38_SanitizeHostName ==
    \A j \in 1..Len(planned) :
        LET host == planHosts[j]
            out == sanitizeHostName(host)
        IN  /\ Len(out) = Len(host)
            /\ \A k \in 1..Len(out) :
                   /\ out[k] \in SafeChars
                   /\ out[k] = IF host[k] \in SafeChars THEN host[k] ELSE "_"
            /\ (\A k \in 1..Len(host) : host[k] \in SafeChars) => out = host
            /\ sanitizeHostName(out) = out

\* the placeholder of a path was replaced by the sanitized form of a host that
\* holds an unsafe character
C38_Witness ==
    /\ Includes(planLocalPath, HostPlaceholder)
    /\ \E j \in 1..Len(planned) :
           /\ \E k \in 1..Len(planHosts[j]) : planHosts[j][k] \notin SafeChars
           /\ ~planned[j].threw
           /\ Includes(planned[j].path, sanitizeHostName(planHosts[j]))
           /\ ~Includes(planned[j].path, planHosts[j])


\* the text of the chunks of one stream, each decoded on arrival, in arrival order
RECURSIVE TextOf(_, _)
TextOf(fd, log) ==
    IF Len(log) = 0 THEN << >>
    ELSE (IF Head(log).fd = fd THEN toString(Head(log).data) ELSE << >>)
         \o TextOf(fd, Tail(log))

\* the bytes of the chunks of one stream, in arrival order
RECURSIVE BytesOf(_, _)
BytesOf(fd, log) ==
    IF Len(log) = 0 THEN << >>
    ELSE (IF Head(log).fd = fd THEN Head(log).data ELSE << >>) \o BytesOf(fd, Tail(log))

\* the stream has reported completion
StreamClosed == Len(chunks) > 0 /\ chunks[Len(chunks)].fd = "close"

\* C40: each buffer of executeCommand holds the chunks of its own stream in
\* arrival order; a result exists only once the stream has closed, its stdout and
\* stderr are the trimmed whole buffers, and the session is ended at the close
\* and not before.
C40_OutputAccumulated ==
    /\ stdoutBuf = TextOf("stdout", chunks)
    /\ stderrBuf = TextOf("stderr", chunks)
    /\ execResult # {} <=> StreamClosed
    /\ clientEnded = (IF StreamClosed THEN 1 ELSE 0)
    /\ \A r \in execResult :
           /\ r.stdout = StringTrim(TextOf("stdout", chunks))
           /\ r.stderr = StringTrim(TextOf("stderr", chunks))

\* a command wrote two chunks to standard output and one to standard error in
\* between, then completed; the ends of its output were trimmed
C40_Witness ==
    /\ StreamClosed
    /\ Len(chunks) = 4
    /\ chunks[1].fd = "stdout" /\ chunks[2].fd = "stderr" /\ chunks[3].fd = "stdout"
    /\ chunks[1].data # chunks[3].data
    /\ \E r \in execResult :
           /\ r.stdout # stdoutBuf
           /\ Len(r.stdout) > 0
           /\ Len(r.stderr) > 0

\* each chunk is decoded alone: the buffer equals the decoding of the whole
\* byte stream only while no character is split over two chunks
C40_WholeStreamDecoding == stdoutBuf = toString(BytesOf("stdout", chunks))

====
